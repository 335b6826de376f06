----------------------------- MODULE Transcript -----------------------------
(* What a backup may rely on when it reads a device: once the device has   *)
(* hung up the text is everything it has sent. Before that, at the end of  *)
(* a period of two seconds, the text is what arrived before that period:   *)
(* all of it if the reader keeps up with the device, and a beginning of it *)
(* that is not empty otherwise. What the device sends in that last period  *)
(* is missing. No word about the buffer, the reader goroutine, its channel *)
(* or the timer; DeviceSession implements it.                              *)
EXTENDS Integers

CONSTANTS Workers,  \* goroutines that read devices
          Whole     \* bound: pieces of output that are told apart

VARIABLES line,     \* the device's end of each connection
          text      \* what came back: a number of pieces, NoText, or Failed

lineVars == <<line, text>>

NoText == -1
Failed == -2

Line == [up : BOOLEAN,             \* whether there is a session
         open : BOOLEAN,           \* whether the device is still there
         prompt : BOOLEAN,         \* whether the reader keeps up with it
         sent : 0..Whole,
         before : 0..Whole]        \* what was sent before this period

Closed == [up |-> FALSE, open |-> FALSE, prompt |-> FALSE,
           sent |-> 0, before |-> 0]
Fresh(prompt) == [up |-> TRUE, open |-> TRUE, prompt |-> prompt,
                  sent |-> 0, before |-> 0]

Init == /\ line = [w \in Workers |-> Closed]
        /\ text = [w \in Workers |-> NoText]

Begin(w) == /\ ~line[w].up
            /\ \E prompt \in BOOLEAN :
                  line' = [line EXCEPT ![w] = Fresh(prompt)]
            /\ text' = [text EXCEPT ![w] = NoText]

Emit(w) == /\ line[w].open /\ line[w].sent < Whole
           /\ line' = [line EXCEPT ![w].sent = @ + 1]
           /\ UNCHANGED text

HangUp(w) == /\ line[w].open
             /\ line' = [line EXCEPT ![w].open = FALSE]
             /\ UNCHANGED text

NextPeriod(w) == /\ line[w].up
                 /\ line' = [line EXCEPT ![w].before = line[w].sent]
                 /\ UNCHANGED text

Texts(l) ==
  {t \in 0..Whole \cup {Failed} :
     \/ ~l.open /\ t \in {l.sent, Failed}
     \/ t \in 1..l.before /\ (l.prompt => t = l.before)}

Return(w) == /\ line[w].up
             /\ \E t \in Texts(line[w]) : text' = [text EXCEPT ![w] = t]
             /\ line' = [line EXCEPT ![w] = Closed]

(* The process dies with its sessions, or a result has been used.          *)
Forget(w) == /\ line' = [line EXCEPT ![w] = Closed]
             /\ text' = [text EXCEPT ![w] = NoText]

ForgetAll == /\ line' = [w \in Workers |-> Closed]
             /\ text' = [w \in Workers |-> NoText]

Next == \/ \E w \in Workers : \/ Begin(w) \/ Emit(w) \/ HangUp(w)
                              \/ NextPeriod(w) \/ Return(w) \/ Forget(w)
        \/ ForgetAll

Spec == Init /\ [][Next]_lineVars
=============================================================================
