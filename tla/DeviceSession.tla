--------------------------- MODULE DeviceSession ---------------------------
(* internal/services/ssh/service.go: RunInteractiveCommand reads a device  *)
(* that needs a terminal: a goroutine copies what arrives to a buffer and  *)
(* closes a channel at the end, while the worker looks at the length of    *)
(* the buffer every two seconds. RunExecCommand waits for the command to   *)
(* end. The device sends its output in pieces (banner, prompt, echo and    *)
(* configuration alike), without end if it likes, pauses where it likes    *)
(* for as long as it likes, and hangs up when it likes: NodeInventory says *)
(* when sessions begin.                                                    *)
EXTENDS Integers

CONSTANTS Workers,  \* goroutines that back up nodes
          Whole     \* bound: pieces of output that are told apart; a
                    \* further one is read as it comes, and not counted

ASSUME DeviceSessionAssumption == Whole \in Nat \ {0}

VARIABLES session,  \* of each worker: its session, or NoSession
          text      \* of each worker: the pieces in the text it got back

sessionVars == <<session, text>>

NoText == -1
Failed == -2        \* an error came back instead of a text

Session == [up : BOOLEAN, pty : BOOLEAN,
            prompt : BOOLEAN,    \* the reader goroutine keeps up: within a
                                 \* period it reads what came before it
            open : BOOLEAN,      \* the device's end of the connection
            sent : 0..Whole,
            before : 0..Whole,   \* history: sent when this period began
            got : 0..Whole,      \* output.Len()
            grown : BOOLEAN,     \* whether it differs from lastLen
            done : BOOLEAN]      \* whether the channel is closed

NoSession == [up |-> FALSE, pty |-> FALSE, prompt |-> FALSE, open |-> FALSE,
              sent |-> 0, before |-> 0,
              got |-> 0, grown |-> FALSE, done |-> FALSE]
NewSession(pty, prompt) ==
  [NoSession EXCEPT !.up = TRUE, !.pty = pty, !.prompt = prompt, !.open = TRUE]

SessionInit == /\ session = [w \in Workers |-> NoSession]
               /\ text = [w \in Workers |-> NoText]

-----------------------------------------------------------------------------
(* PerformBackup: the driver of the vendor decides about the terminal. An  *)
(* error before the shell runs is one of the ways in which a connection    *)
(* fails.                                                                  *)
Open(w) ==
  /\ ~session[w].up
  /\ \E pty, prompt \in BOOLEAN :
        /\ prompt => pty
        /\ session' = [session EXCEPT ![w] = NewSession(pty, prompt)]
  /\ text' = [text EXCEPT ![w] = NoText]

Sends(s) == IF s.sent < Whole THEN [s EXCEPT !.sent = @ + 1]
            ELSE [s EXCEPT !.grown = TRUE]

Emit(w) ==
  /\ session[w].open
  /\ session[w].sent < Whole \/ session[w].got = Whole
  /\ session' = [session EXCEPT ![w] = Sends(@)]
  /\ UNCHANGED text

HangUp(w) ==
  /\ session[w].open
  /\ session' = [session EXCEPT ![w].open = FALSE]
  /\ UNCHANGED text

(* The reader goroutine: Read returns a piece...                           *)
Read(w) ==
  /\ session[w].got < session[w].sent
  /\ session' = [session EXCEPT ![w].got = @ + 1, ![w].grown = TRUE]
  /\ UNCHANGED text

(* ... or an error, the end of the output like a broken connection, after  *)
(* all that arrived before it.                                             *)
AtEndMutant(s) == ~s.open                \* the rest is not read
AtEnd(s) == ~s.open /\ s.got = s.sent

ReadEnds(w) ==
  /\ session[w].up /\ session[w].pty /\ ~session[w].done
  /\ AtEnd(session[w])
  /\ session' = [session EXCEPT ![w].done = TRUE]
  /\ UNCHANGED text

(* The deferred session.Close.                                             *)
Return(w, t) == /\ session' = [session EXCEPT ![w] = NoSession]
                /\ text' = [text EXCEPT ![w] = t]

(* case <-done: whatever there is is the result.                           *)
TakeDone(w) ==
  /\ session[w].done
  /\ Return(w, session[w].got)

IdleMutant(s) == s.got > 0               \* growth is not looked at
Idle(s) == s.got > 0 /\ ~s.grown

NextPeriodMutant(s) == [s EXCEPT !.before = s.sent]   \* lastLen stays 0
NextPeriod(s) == [s EXCEPT !.before = s.sent, !.grown = FALSE]

(* case <-timer.C, whatever has arrived and is not in the buffer yet: the  *)
(* text may be cut while output still comes.                               *)
TimerFires(w) ==
  /\ session[w].up /\ session[w].pty
  /\ session[w].prompt => session[w].got >= session[w].before
  /\ IF Idle(session[w])
     THEN Return(w, session[w].got)
     ELSE /\ session' = [session EXCEPT ![w] = NextPeriod(@)]
          /\ UNCHANGED text

(* CombinedOutput: the output up to the end, or an error. The exit status  *)
(* of the command decides, whether or not all of the output arrived.       *)
RunExecCommand(w) ==
  /\ session[w].up /\ ~session[w].pty
  /\ AtEnd(session[w])
  /\ \E t \in {session[w].got, Failed} : Return(w, t)

Device(w)   == Emit(w) \/ HangUp(w)
Client(w)   == Read(w) \/ ReadEnds(w)
Returns(w)  == TakeDone(w) \/ TimerFires(w) \/ RunExecCommand(w)

(* The process dies, or the text has been used.                            *)
Forget(w) == /\ ~session[w].up /\ UNCHANGED session
             /\ text' = [text EXCEPT ![w] = NoText]

-----------------------------------------------------------------------------
SessionTypeOK == /\ session \in [Workers -> Session]
                 /\ text \in [Workers -> {NoText, Failed} \cup 0..Whole]

(* Buffer, channel and timer together keep what Transcript promises: a     *)
(* text that comes back after the device hung up is all that it has sent;  *)
(* one that the timer brings back before is never empty, has nothing of    *)
(* the last period, and is all that was sent until then if the reader      *)
(* keeps up.                                                               *)
LineOf(s) == [up |-> s.up, open |-> s.open, prompt |-> s.prompt,
              sent |-> s.sent, before |-> s.before]

Promise == INSTANCE Transcript
             WITH line <- [w \in Workers |-> LineOf(session[w])], text <- text
ImplementsTranscript == Promise!Spec

(* A goroutine that can run does; the device owes nothing.                 *)
SessionFairness ==
  \A w \in Workers : WF_sessionVars(Client(w)) /\ WF_sessionVars(Returns(w))

(* "Read output interactively until it idles": a session ends when the     *)
(* device hangs up, or once it has said something to a terminal and stops  *)
(* sending in the end. There is no other deadline: a terminal that never   *)
(* says anything or that never stops, and a command that does not end,     *)
(* hold their worker for good.                                             *)
HasEnd(s) == s.up /\ (~s.open \/ (s.pty /\ s.sent > 0))

StopsSending(w) == <>[][~Emit(w)]_sessionVars

SessionsEnd ==
  \A w \in Workers :
    StopsSending(w) => (HasEnd(session[w]) ~> ~session[w].up)
=============================================================================
