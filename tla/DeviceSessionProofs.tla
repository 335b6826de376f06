------------------------ MODULE DeviceSessionProofs ------------------------
(* Whatever the module that begins sessions does with them, the steps of   *)
(* DeviceSession keep types and implement Transcript.                      *)
EXTENDS DeviceSession, TLAPS

(* What may happen to the sessions: NodeInventory shows that its steps do  *)
(* no more.                                                                *)
SessionsLost == /\ session' = [w \in Workers |-> NoSession]
                /\ text' = [w \in Workers |-> NoText]

SessionNext == \/ \E w \in Workers : \/ Open(w) \/ Device(w) \/ Client(w)
                                     \/ Returns(w) \/ Forget(w)
               \/ SessionsLost

(* The buffer holds what was read of what was sent; as long as it has not  *)
(* grown in this period, it is a part of what was sent before.             *)
Buffered(s) ==
  /\ s.got <= s.sent /\ s.before <= s.sent
  /\ ~s.grown => s.got <= s.before
  /\ s.done => ~s.open /\ s.got = s.sent
  /\ ~s.up => /\ ~s.open /\ ~s.prompt /\ ~s.done
              /\ s.sent = 0 /\ s.before = 0

SessionInv == SessionTypeOK /\ \A w \in Workers : Buffered(session[w])

-----------------------------------------------------------------------------
LEMMA SessionParts ==
  ASSUME NEW s \in Session
  PROVE  /\ s.up \in BOOLEAN /\ s.pty \in BOOLEAN /\ s.prompt \in BOOLEAN
         /\ s.open \in BOOLEAN /\ s.sent \in 0..Whole
         /\ s.before \in 0..Whole /\ s.got \in 0..Whole
         /\ s.grown \in BOOLEAN /\ s.done \in BOOLEAN
BY DEF Session

LEMMA NoSessionType == NoSession \in Session /\ Buffered(NoSession)
BY DeviceSessionAssumption DEF NoSession, Session, Buffered

LEMMA NewSessionFields ==
  ASSUME NEW pty \in BOOLEAN, NEW prompt \in BOOLEAN,
         NEW t, t = NewSession(pty, prompt)
  PROVE  t = [up |-> TRUE, pty |-> pty, prompt |-> prompt, open |-> TRUE,
              sent |-> 0, before |-> 0,
              got |-> 0, grown |-> FALSE, done |-> FALSE]
BY DEF NewSession, NoSession

LEMMA NewSessionType ==
  ASSUME NEW pty \in BOOLEAN, NEW prompt \in BOOLEAN
  PROVE  /\ NewSession(pty, prompt) \in Session
         /\ Buffered(NewSession(pty, prompt))
<1> DEFINE t == NewSession(pty, prompt)
<1>1. t = [up |-> TRUE, pty |-> pty, prompt |-> prompt, open |-> TRUE,
           sent |-> 0, before |-> 0,
           got |-> 0, grown |-> FALSE, done |-> FALSE]
  BY NewSessionFields
<1> HIDE DEF t
<1>2. t \in Session /\ Buffered(t)
  BY <1>1, DeviceSessionAssumption DEF Session, Buffered
<1> QED BY <1>2 DEF t

(* The steps that change one session, on records.                          *)
LEMMA EmitKeeps ==
  ASSUME NEW s \in Session, Buffered(s), s.open,
         NEW t, t = Sends(s)
  PROVE  t \in Session /\ Buffered(t)
<1>1. CASE s.sent < Whole
  <2>1. s.sent + 1 \in 0..Whole
    BY <1>1, SessionParts, DeviceSessionAssumption
  <2>2. t = [s EXCEPT !.sent = @ + 1]
    BY <1>1 DEF Sends
  <2>3. t \in Session
    BY <2>1, <2>2 DEF Session
  <2>4. /\ t.sent = s.sent + 1 /\ t.got = s.got /\ t.before = s.before
        /\ (t.grown <=> s.grown) /\ (t.done <=> s.done) /\ (t.up <=> s.up)
    BY <2>2 DEF Session
  <2>5. s.up /\ ~s.done
    BY SessionParts DEF Buffered
  <2>6. t.got <= t.sent /\ t.before <= t.sent
    BY <2>4, SessionParts, DeviceSessionAssumption DEF Buffered
  <2> QED BY <2>3, <2>4, <2>5, <2>6 DEF Buffered
<1>2. CASE ~(s.sent < Whole)
  <2>1. t = [s EXCEPT !.grown = TRUE]
    BY <1>2 DEF Sends
  <2> QED BY <2>1, DeviceSessionAssumption DEF Session, Buffered
<1> QED BY <1>1, <1>2

LEMMA HangUpKeeps ==
  ASSUME NEW s \in Session, Buffered(s),
         NEW t, t = [s EXCEPT !.open = FALSE]
  PROVE  t \in Session /\ Buffered(t)
BY DeviceSessionAssumption DEF Session, Buffered

LEMMA ReadKeeps ==
  ASSUME NEW s \in Session, Buffered(s), s.got < s.sent,
         NEW t, t = [s EXCEPT !.got = @ + 1, !.grown = TRUE]
  PROVE  t \in Session /\ Buffered(t)
<1>1. s.got + 1 \in 0..Whole /\ s.got + 1 <= s.sent
  BY SessionParts, DeviceSessionAssumption
<1>2. t \in Session
  BY <1>1 DEF Session
<1>3. /\ t.got = s.got + 1 /\ t.grown = TRUE
      /\ t.sent = s.sent /\ t.before = s.before /\ (t.up <=> s.up)
      /\ (t.open <=> s.open) /\ (t.prompt <=> s.prompt)
      /\ (t.done <=> s.done)
  BY DEF Session
<1>4. ~s.done
  BY SessionParts, DeviceSessionAssumption DEF Buffered
<1> QED BY <1>1, <1>2, <1>3, <1>4 DEF Buffered

LEMMA ReadEndsKeeps ==
  ASSUME NEW s \in Session, Buffered(s), s.up, AtEnd(s),
         NEW t, t = [s EXCEPT !.done = TRUE]
  PROVE  t \in Session /\ Buffered(t)
BY DeviceSessionAssumption DEF Session, Buffered, AtEnd

LEMMA PeriodKeeps ==
  ASSUME NEW s \in Session, Buffered(s), s.up, NEW t, t = NextPeriod(s)
  PROVE  t \in Session /\ Buffered(t)
<1>1. t = [s EXCEPT !.before = s.sent, !.grown = FALSE]
  BY DEF NextPeriod
<1>2. t \in Session
  BY <1>1 DEF Session
<1>3. /\ t.before = s.sent /\ t.grown = FALSE /\ t.got = s.got
      /\ t.sent = s.sent /\ (t.up <=> s.up) /\ (t.open <=> s.open)
      /\ (t.done <=> s.done)
  BY <1>1 DEF Session
<1> QED BY <1>2, <1>3, SessionParts DEF Buffered

LEMMA SessionInvInit == SessionInit => SessionInv
BY NoSessionType DEF SessionInit, SessionInv, SessionTypeOK

(* One session changes, and keeps its type and Buffered; so does the text. *)
LEMMA OneSession ==
  ASSUME SessionInv, NEW w \in Workers,
         NEW s \in Session, Buffered(s), session' = [session EXCEPT ![w] = s],
         NEW t \in {NoText, Failed} \cup 0..Whole,
         UNCHANGED text \/ text' = [text EXCEPT ![w] = t]
  PROVE  SessionInv'
BY DEF SessionInv, SessionTypeOK, Buffered

LEMMA SessionInvStep == SessionInv /\ SessionNext => SessionInv'
<1> SUFFICES ASSUME SessionInv, SessionNext PROVE SessionInv'
  OBVIOUS
<1>0. NoText \in {NoText, Failed} \cup 0..Whole
  OBVIOUS
<1>1. ASSUME NEW w \in Workers, Open(w) PROVE SessionInv'
  BY <1>0, <1>1, NewSessionType, OneSession DEF Open
<1>2. ASSUME NEW w \in Workers,
             \/ Emit(w) \/ HangUp(w) \/ Read(w) \/ ReadEnds(w)
             \/ TimerFires(w) /\ ~Idle(session[w])
      PROVE  SessionInv'
  <2>0. session[w] \in Session /\ Buffered(session[w])
    BY DEF SessionInv, SessionTypeOK
  <2>1. PICK t \in Session : /\ Buffered(t)
                             /\ session' = [session EXCEPT ![w] = t]
                             /\ UNCHANGED text
    <3>1. CASE Emit(w)
      BY <2>0, <3>1, EmitKeeps DEF Emit
    <3>2. CASE HangUp(w)
      BY <2>0, <3>2, HangUpKeeps DEF HangUp
    <3>3. CASE Read(w)
      BY <2>0, <3>3, ReadKeeps DEF Read
    <3>4. CASE ReadEnds(w)
      BY <2>0, <3>4, ReadEndsKeeps DEF ReadEnds
    <3>5. CASE TimerFires(w) /\ ~Idle(session[w])
      BY <2>0, <3>5, PeriodKeeps DEF TimerFires
    <3> QED BY <1>2, <3>1, <3>2, <3>3, <3>4, <3>5
  <2> QED BY <1>0, <2>1, OneSession
<1>3. ASSUME NEW w \in Workers,
             \/ TakeDone(w) \/ RunExecCommand(w)
             \/ TimerFires(w) /\ Idle(session[w])
      PROVE  SessionInv'
  <2>1. PICK t \in {Failed} \cup 0..Whole : Return(w, t)
    BY <1>3, SessionParts, DeviceSessionAssumption
       DEF TakeDone, RunExecCommand, TimerFires, SessionInv, SessionTypeOK
  <2> QED BY <2>1, NoSessionType, OneSession DEF Return
<1>4. ASSUME NEW w \in Workers, Forget(w) PROVE SessionInv'
  BY <1>4 DEF Forget, SessionInv, SessionTypeOK
<1>5. CASE SessionsLost
  BY <1>5, NoSessionType DEF SessionsLost, SessionInv, SessionTypeOK
<1> QED BY <1>1, <1>2, <1>3, <1>4, <1>5
           DEF SessionNext, Device, Client, Returns

LEMMA SessionInvStutter ==
  SessionInv /\ UNCHANGED sessionVars => SessionInv'
BY DEF SessionInv, SessionTypeOK, Buffered, sessionVars

-----------------------------------------------------------------------------
(* The refinement: what Transcript sees of a session.                      *)
Seen == [w \in Workers |-> LineOf(session[w])]

LEMMA LineParts ==
  /\ LineOf(NoSession) = Promise!Closed
  /\ \A pty, prompt \in BOOLEAN :
       LineOf(NewSession(pty, prompt)) = Promise!Fresh(prompt)
BY DEF LineOf, NoSession, NewSession, Promise!Closed, Promise!Fresh

LEMMA SessionRefinesInit == SessionInit => Promise!Init
BY LineParts DEF SessionInit, Promise!Init, Promise!NoText, NoText

(* One session changes to t.                                              *)
LEMMA SeenStep ==
  ASSUME SessionInv, NEW w \in Workers, NEW t,
         session' = [session EXCEPT ![w] = t]
  PROVE  Seen' = [Seen EXCEPT ![w] = LineOf(t)] /\ Seen[w] = LineOf(session[w])
BY DEF Seen, SessionInv, SessionTypeOK

(* What the steps of the device and the timer do to what is seen.         *)
LEMMA LineSent ==
  ASSUME NEW s, NEW l, l = LineOf(s), NEW x, NEW t, t = [l EXCEPT !.sent = x]
  PROVE  t = [up |-> s.up, open |-> s.open, prompt |-> s.prompt,
              sent |-> x, before |-> s.before]
BY DEF LineOf

LEMMA LineClosed ==
  ASSUME NEW s, NEW l, l = LineOf(s), NEW t, t = [l EXCEPT !.open = FALSE]
  PROVE  t = [up |-> s.up, open |-> FALSE, prompt |-> s.prompt,
              sent |-> s.sent, before |-> s.before]
BY DEF LineOf

LEMMA LinePeriod ==
  ASSUME NEW s, NEW l, l = LineOf(s),
         NEW t, t = [l EXCEPT !.before = s.sent]
  PROVE  t = [up |-> s.up, open |-> s.open, prompt |-> s.prompt,
              sent |-> s.sent, before |-> s.sent]
BY DEF LineOf

(* Steps that Transcript does not see, and the ones that it does.          *)
LEMMA UnseenStep ==
  ASSUME SessionInv, NEW w \in Workers, Client(w)
  PROVE  UNCHANGED <<Seen, text>>
<1>1. PICK t : /\ session' = [session EXCEPT ![w] = t] /\ UNCHANGED text
               /\ LineOf(t) = LineOf(session[w])
  BY DEF Client, Read, ReadEnds, LineOf, SessionInv, SessionTypeOK, Session
<1> QED BY <1>1, SeenStep DEF Seen

LEMMA DeviceStep ==
  ASSUME SessionInv, NEW w \in Workers, Device(w)
  PROVE  \/ Promise!Emit(w) \/ Promise!HangUp(w)
         \/ UNCHANGED <<Seen, text>>
<1> DEFINE s == session[w]
<1>0. s \in Session
  BY DEF SessionInv, SessionTypeOK
<1>1. CASE Emit(w) /\ s.sent < Whole
  <2>1. PICK t : /\ t = [s EXCEPT !.sent = @ + 1]
                 /\ session' = [session EXCEPT ![w] = t] /\ UNCHANGED text
    BY <1>1 DEF Emit, Sends
  <2>2. LineOf(t) = [LineOf(s) EXCEPT !.sent = @ + 1]
    <3>1. s.sent + 1 \in Nat /\ LineOf(s).sent = s.sent
      BY <1>0, SessionParts DEF LineOf
    <3>2. LineOf(t) = [up |-> s.up, open |-> s.open, prompt |-> s.prompt,
                       sent |-> s.sent + 1, before |-> s.before]
      BY <1>0, <2>1 DEF LineOf, Session
    <3>3. LineOf(t) = [LineOf(s) EXCEPT !.sent = s.sent + 1]
      BY <3>2, LineSent
    <3> QED BY <3>1, <3>3
  <2>3. LineOf(s).open /\ LineOf(s).sent < Whole
    BY <1>1 DEF Emit, LineOf
  <2>4. Seen' = [Seen EXCEPT ![w] = LineOf(t)] /\ Seen[w] = LineOf(s)
    BY <2>1, SeenStep
  <2> QED BY <2>1, <2>2, <2>3, <2>4 DEF Promise!Emit, Seen
<1>3. CASE Emit(w) /\ ~(s.sent < Whole)
  <2>1. PICK t : /\ t = [s EXCEPT !.grown = TRUE]
                 /\ session' = [session EXCEPT ![w] = t] /\ UNCHANGED text
    BY <1>3 DEF Emit, Sends
  <2>2. LineOf(t) = LineOf(s)
    BY <1>0, <2>1 DEF LineOf, Session
  <2> QED BY <2>1, <2>2, SeenStep DEF Seen
<1>2. CASE HangUp(w)
  <2>1. PICK t : /\ t = [s EXCEPT !.open = FALSE]
                 /\ session' = [session EXCEPT ![w] = t] /\ UNCHANGED text
    BY <1>2 DEF HangUp
  <2>2. LineOf(t) = [LineOf(s) EXCEPT !.open = FALSE]
    <3>1. LineOf(t) = [up |-> s.up, open |-> FALSE, prompt |-> s.prompt,
                       sent |-> s.sent, before |-> s.before]
      BY <1>0, <2>1 DEF LineOf, Session
    <3> QED BY <3>1, LineClosed
  <2>3. LineOf(s).open
    BY <1>2 DEF HangUp, LineOf
  <2>4. Seen' = [Seen EXCEPT ![w] = LineOf(t)] /\ Seen[w] = LineOf(s)
    BY <2>1, SeenStep
  <2> QED BY <2>1, <2>2, <2>3, <2>4 DEF Promise!HangUp, Seen
<1> QED BY <1>1, <1>2, <1>3 DEF Device

LEMMA ReturnStep ==
  ASSUME SessionInv, NEW w \in Workers, NEW t \in 0..Whole \cup {Failed},
         Return(w, t), session[w].up,
         \/ ~session[w].open /\ t \in {session[w].sent, Failed}
         \/ /\ t \in 1..session[w].before
            /\ session[w].prompt => t = session[w].before
  PROVE  Promise!Return(w)
<1>1. /\ Seen[w].up /\ (Seen[w].open <=> session[w].open)
      /\ (Seen[w].prompt <=> session[w].prompt)
      /\ Seen[w].sent = session[w].sent /\ Seen[w].before = session[w].before
  BY DEF Seen, LineOf
<1>2. t \in Promise!Texts(Seen[w])
  BY <1>1 DEF Promise!Texts, Promise!Failed, Failed
<1>3. Seen' = [Seen EXCEPT ![w] = Promise!Closed]
  BY LineParts, SeenStep DEF Return
<1> QED BY <1>1, <1>2, <1>3 DEF Return, Promise!Return, Seen

LEMMA SessionRefines ==
  SessionInv /\ SessionNext => Promise!Next \/ UNCHANGED <<Seen, text>>
<1> SUFFICES ASSUME SessionInv, SessionNext
             PROVE  Promise!Next \/ UNCHANGED <<Seen, text>>
  OBVIOUS
<1>0. ASSUME NEW w \in Workers
      PROVE  session[w] \in Session /\ Buffered(session[w])
  BY DEF SessionInv, SessionTypeOK
<1>1. ASSUME NEW w \in Workers, Open(w) PROVE Promise!Begin(w)
  <2>1. PICK pty, prompt \in BOOLEAN :
          session' = [session EXCEPT ![w] = NewSession(pty, prompt)]
    BY <1>1 DEF Open
  <2>2. /\ Seen' = [Seen EXCEPT ![w] = Promise!Fresh(prompt)]
        /\ Seen[w] = LineOf(session[w])
    <3>1. PICK t : t = NewSession(pty, prompt)
      OBVIOUS
    <3>2. /\ session' = [session EXCEPT ![w] = t]
          /\ LineOf(t) = Promise!Fresh(prompt)
      BY <2>1, <3>1, LineParts
    <3> QED BY <3>2, SeenStep
  <2>3. ~Seen[w].up
    BY <1>1, <2>2 DEF Open, LineOf
  <2> QED BY <1>1, <2>2, <2>3 DEF Open, Seen, Promise!Begin,
                                  Promise!NoText, NoText
<1>2. ASSUME NEW w \in Workers, TakeDone(w) PROVE Promise!Return(w)
  <2>1. /\ session[w].up /\ ~session[w].open
        /\ session[w].got = session[w].sent /\ session[w].got \in 0..Whole
    BY <1>0, <1>2, SessionParts DEF TakeDone, Buffered
  <2> QED BY <1>2, <2>1, ReturnStep DEF TakeDone
<1>3. ASSUME NEW w \in Workers, RunExecCommand(w) PROVE Promise!Return(w)
  <2>1. PICK t \in 0..Whole \cup {Failed} :
          Return(w, t) /\ t \in {session[w].sent, Failed}
    BY <1>0, <1>3, SessionParts DEF RunExecCommand, AtEnd
  <2> QED BY <1>3, <2>1, ReturnStep DEF RunExecCommand, AtEnd
<1>4. ASSUME NEW w \in Workers, TimerFires(w), Idle(session[w])
      PROVE  Promise!Return(w)
  <2>1. /\ session[w].got > 0 /\ ~session[w].grown
        /\ session[w].prompt => session[w].got >= session[w].before
        /\ Return(w, session[w].got) /\ session[w].up
    BY <1>4 DEF TimerFires, Idle
  <2>2. /\ session[w].got \in 0..Whole
        /\ session[w].got \in 1..session[w].before
        /\ session[w].prompt => session[w].got = session[w].before
    BY <1>0, <2>1, SessionParts, DeviceSessionAssumption DEF Buffered
  <2> QED BY <2>1, <2>2, ReturnStep
<1>5. ASSUME NEW w \in Workers, TimerFires(w), ~Idle(session[w])
      PROVE  Promise!NextPeriod(w)
  <2> DEFINE s == session[w]
  <2>1. PICK t : /\ t = NextPeriod(s)
                 /\ session' = [session EXCEPT ![w] = t] /\ UNCHANGED text
    BY <1>5 DEF TimerFires
  <2>2. LineOf(t) = [LineOf(s) EXCEPT !.before = s.sent]
    <3>1. LineOf(t) = [up |-> s.up, open |-> s.open, prompt |-> s.prompt,
                       sent |-> s.sent, before |-> s.sent]
      BY <1>0, <2>1 DEF LineOf, Session, NextPeriod
    <3> QED BY <3>1, LinePeriod
  <2>3. LineOf(s).up /\ LineOf(s).sent = s.sent
    BY <1>5 DEF TimerFires, LineOf
  <2>4. Seen' = [Seen EXCEPT ![w] = LineOf(t)] /\ Seen[w] = LineOf(s)
    BY <2>1, SeenStep
  <2> QED BY <2>1, <2>2, <2>3, <2>4 DEF Promise!NextPeriod, Seen
<1>6. ASSUME NEW w \in Workers, Forget(w) PROVE Promise!Forget(w)
  <2>1. LineOf(session[w]) = Promise!Closed
    BY <1>0, <1>6, SessionParts DEF Forget, Buffered, LineOf, Promise!Closed
  <2>2. Seen' = Seen /\ Seen[w] = Promise!Closed
    BY <1>6, <2>1 DEF Forget, Seen
  <2>3. Seen = [Seen EXCEPT ![w] = Promise!Closed]
    BY <2>2 DEF Seen
  <2> QED BY <1>6, <2>2, <2>3 DEF Forget, Seen, Promise!Forget,
                                  Promise!NoText, NoText
<1>7. CASE SessionsLost
  BY <1>7, LineParts DEF SessionsLost, Promise!Next, Promise!ForgetAll,
                         Promise!NoText, NoText
<1> QED BY <1>1, <1>2, <1>3, <1>4, <1>5, <1>6, <1>7, UnseenStep, DeviceStep
           DEF SessionNext, Device, Client, Returns, Promise!Next
=============================================================================
