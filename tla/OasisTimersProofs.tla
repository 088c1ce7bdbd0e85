-------------------------- MODULE OasisTimersProofs --------------------------
(***************************************************************************)
(* The Oasis application and its timers, proved for both modes, any set of *)
(* events and any number of them.  The proofs rest on where the algorithm  *)
(* task is: what it still has to do is a run of timers to stop, followed   *)
(* by one of a few remainders, and each remainder comes with what is true  *)
(* of the run flag, the blocking list and the timers at that place.        *)
(***************************************************************************)
EXTENDS OasisTimers, SequenceTheorems, TLAPS

\* The two halves of FWK_Timer_Stop.
StopIns == [op : {"stop", "free"}, arg : Timers]

\* The timers that a run of instructions stops.
ToStop(a) == {a[i].arg : i \in DOMAIN a}

\* A timer that runs is among those still to be stopped.
OffAfter(a, t) == t \in armed => t \in ToStop(a)

\* What is left behind the timers to stop: of a start function, before and
\* after the run flag is set; of the handling of a result; of an event.
Bodies == { << SetFlag("DET_REC"), Start("Rec"), Start("DetFace") >>,
            << SetFlag("REG"), Start("DetFace"), Start("Reg") >>,
            << Start("DetFace"), Start("Dereg"), SetFlag("DEREG") >> }
AfterRecognition == { << Start("Rec"), Start("DetFace") >>, << Start("DetFace") >> }
AfterRegistration == { << Start("DetFace"), Start("Reg") >>, << Start("Reg") >> }
Calls == { << Call("recognition") >>, << Call("registration") >>,
           << Call("deregistration") >> }
Sleeps == { << Ins("sleep", "on") >>, << Ins("sleep", "off") >> }
SleepStarts == { << Start("Rec"), Start("DetFace"), Ins("sleep", "on") >>,
                 << Start("DetFace"), Ins("sleep", "on") >> }
Inference == { << Start("QualityCheck"), Ins("check", "timeout"), Ins("process", "result") >>,
               << Ins("check", "timeout"), Ins("process", "result") >> }

\* The application is stopped while it is blocked, and then has neither a
\* result timer nor lost the run flag to return to.
Blocked ==
  /\ run_flag = "STOP" <=> blockingList # {}
  /\ run_flag = "STOP" => "Result" \notin armed

\* An operation has its timer, or the expiry of one is noted.
Timed ==
  /\ run_flag = "REG" => "Reg" \in armed \/ timer_timeout
  /\ run_flag = "DEREG" => "Dereg" \in armed \/ timer_timeout

\* Between two operations of the task.  The result timer runs alone: the
\* callback of the no-face timer would stop it.
AtRest ==
  /\ Blocked
  /\ Timed
  /\ run_flag = "NUM" /\ ~asleep => "Result" \in armed
  /\ "Result" \in armed => run_flag = "NUM" /\ "DetFace" \notin armed

\* Nobody blocks, and no result is shown.
Working == run_flag # "STOP" /\ blockingList = {} /\ "Result" \notin armed

\* The inference has been run for the operation under way.
Decided ==
  /\ Working
  /\ run_flag \in {"DET_REC", "REG", "DEREG"}
  /\ result.state = StateOf(run_flag)

\* What is true when the task has the timers of a to stop and then b to do.
Place(a, b) ==
  \/ b = <<>> /\ a = <<>> /\ AtRest
  \/ b \in Calls /\ a = <<>> /\ Blocked
  \/ b \in Sleeps /\ ToStop(a) \subseteq {"Rec", "DetFace"} /\ AtRest
  \/ b \in SleepStarts /\ a = <<>> /\ Working /\ run_flag = "DET_REC"
  \/ b \in Bodies /\ run_flag # "STOP" /\ blockingList = {} /\ OffAfter(a, "Result")
  \/ b \in AfterRecognition /\ a = <<>> /\ Working /\ run_flag = "DET_REC"
  \/ b \in AfterRegistration /\ a = <<>> /\ Working /\ run_flag = "REG"
  \/ b = << Start("Dereg"), SetFlag("DEREG") >> /\ a = <<>> /\ Working
  \/ /\ b = << SetFlag("DEREG") >> /\ a = <<>> /\ Working
     /\ "Dereg" \in armed \/ timer_timeout
  \/ b \in Inference /\ ToStop(a) \subseteq {"QualityCheck"} /\ Decided /\ Timed
  \/ /\ b = << Ins("process", "result") >> /\ a = <<>> /\ Decided
     /\ Timed \/ result.outcome # "Invalid"
  \/ b = << Start("Result") >> /\ Working /\ run_flag = "NUM" /\ OffAfter(a, "DetFace")
  \/ /\ b = << Ins("halt", "STOP") >> /\ OffAfter(a, "Result")
     /\ run_flag # "STOP" /\ blockingList # {}

\* Up to the use of a freed timer, the task is at one of these places.
PlaceInv ==
  /\ ~raced => \E a \in Seq(StopIns), b \in Seq(Instructions) :
                 todo = a \o b /\ Place(a, b)
  /\ ~raced /\ run_flag = "STOP" => prevRunFlag # "STOP"

-----------------------------------------------------------------------------
(* Types.                                                                  *)

\* The instructions are instructions, and what each of them names is known.
LEMMA InsFacts ==
  /\ \A t \in Timers : /\ Start(t) \in Instructions /\ Ins("stop", t) \in Instructions
                       /\ Ins("free", t) \in Instructions
                       /\ Ins("stop", t) \in StopIns /\ Ins("free", t) \in StopIns
  /\ \A f \in {"DET_REC", "REG", "DEREG"} : SetFlag(f) \in Instructions
  /\ \A f \in {"recognition", "registration", "deregistration"} : Call(f) \in Instructions
  /\ Ins("sleep", "on") \in Instructions /\ Ins("sleep", "off") \in Instructions
  /\ Ins("check", "timeout") \in Instructions /\ Ins("process", "result") \in Instructions
  /\ Ins("halt", "STOP") \in Instructions
  /\ StopIns \subseteq Instructions
  /\ \A i \in Instructions :
       /\ i.op \in {"start", "stop", "free"} => i.arg \in Timers
       /\ i.op = "flag" => i.arg \in {"DET_REC", "REG", "DEREG"}
       /\ i.op = "call" => i.arg \in {"recognition", "registration", "deregistration"}
BY DEF Instructions, StopIns, Ins, Start, SetFlag, Call

\* The timers to stop are instructions of that kind.
LEMMA TimersStopSeq ==
  /\ _oasis_timers_stop \in Seq(StopIns)
  /\ _oasis_timers_stop \in Seq(Instructions)
  /\ ToStop(_oasis_timers_stop) = Timers
<1>1. /\ Ins("stop", "Reg") \in StopIns /\ Ins("stop", "DetFace") \in StopIns
      /\ Ins("stop", "Dereg") \in StopIns /\ Ins("stop", "Rec") \in StopIns
      /\ Ins("stop", "Result") \in StopIns /\ Ins("stop", "QualityCheck") \in StopIns
  BY InsFacts DEF Timers
<1>2. _oasis_timers_stop \in Seq(StopIns)
  BY <1>1 DEF _oasis_timers_stop
<1>3. _oasis_timers_stop \in Seq(Instructions)
  BY <1>1, InsFacts DEF _oasis_timers_stop
<1>4. ToStop(_oasis_timers_stop) = Timers
  BY DEF ToStop, _oasis_timers_stop, Ins, Timers
<1> QED
  BY <1>2, <1>3, <1>4

\* The start functions stop the timers and go on with one of the bodies.
LEMMA BodyFacts ==
  ASSUME NEW f \in {"recognition", "registration", "deregistration"}
  PROVE  /\ Body(f) \in Seq(Instructions)
         /\ \E b \in Bodies : b \in Seq(Instructions) /\ Body(f) = _oasis_timers_stop \o b
<1>1. \A b \in Bodies : b \in Seq(Instructions)
  <2>1. /\ SetFlag("DET_REC") \in Instructions /\ SetFlag("REG") \in Instructions
        /\ SetFlag("DEREG") \in Instructions
        /\ Start("Rec") \in Instructions /\ Start("DetFace") \in Instructions
        /\ Start("Reg") \in Instructions /\ Start("Dereg") \in Instructions
    BY InsFacts DEF Timers
  <2>2. \A i, j, k \in Instructions : << i, j, k >> \in Seq(Instructions)
    OBVIOUS
  <2> QED
    BY <2>1, <2>2 DEF Bodies
<1>2. \E b \in Bodies : Body(f) = _oasis_timers_stop \o b
  BY DEF Body, Bodies, _oasis_start_recognition, _oasis_start_registration,
         _oasis_start_deregistration
<1>3. \A b \in Seq(Instructions) : _oasis_timers_stop \o b \in Seq(Instructions)
  BY TimersStopSeq
<1> QED
  BY <1>1, <1>2, <1>3

\* The types hold after the initialisation.
LEMMA TypeInit ==
  ASSUME Init
  PROVE  TypeOK
<1>1. /\ run_flag \in RunFlags /\ prevRunFlag \in RunFlags /\ blockingList \subseteq Blockers
      /\ armed \subseteq Timers /\ stray \in [Timers -> Nat]
      /\ todo \in Seq(Instructions)
  BY DEF Init, RunFlags, Timers
<1>2. result \in [state : Operations, outcome : Outcomes]
  BY DEF Init, Cleared, Operations, Outcomes
<1>3. /\ timer_timeout \in BOOLEAN /\ sleepMode \in BOOLEAN /\ asleep \in BOOLEAN
      /\ raced \in BOOLEAN
  BY Zenon DEF Init
<1>4. events \in 0..MaxEvents
  BY OasisAssumption DEF Init
<1> QED
  BY <1>1, <1>2, <1>3, <1>4 DEF TypeOK

\* The outcome of a callback has the types.
LEMMA CallbackTypes ==
  ASSUME TypeOK, NEW t \in Timers, Callback(t)
  PROVE  /\ run_flag' \in RunFlags /\ timer_timeout' \in BOOLEAN /\ asleep' \in BOOLEAN
         /\ result' \in [state : Operations, outcome : Outcomes]
         /\ armed' \subseteq Timers
<1>1. CASE t = "Result"
  <2>1. ResultCallback
    BY <1>1 DEF Callback
  <2>2. run_flag' \in RunFlags /\ armed' \subseteq Timers
    BY <2>1 DEF ResultCallback, TypeOK, RunFlags, Timers
  <2>3. Cleared \in [state : Operations, outcome : Outcomes]
    BY DEF Cleared, Operations, Outcomes
  <2>4. result' \in [state : Operations, outcome : Outcomes]
    BY <2>1, <2>3 DEF ResultCallback, TypeOK
  <2>5. timer_timeout' \in BOOLEAN /\ asleep' \in BOOLEAN
    BY <2>1, Zenon DEF ResultCallback, TypeOK
  <2> QED
    BY <2>2, <2>4, <2>5
<1>2. CASE t # "Result"
  BY <1>2 DEF Callback, TimeoutCallback, TypeOK
<1> QED
  BY <1>1, <1>2

\* The start of the application again after it was stopped has the types.
LEMMA StartTypes ==
  ASSUME TypeOK, _oasis_start
  PROVE  run_flag' \in RunFlags /\ prevRunFlag' \in RunFlags /\ todo' \in Seq(Instructions)
<1>1. << Call("recognition") >> \in Seq(Instructions)
  BY InsFacts
<1> QED
  BY <1>1 DEF _oasis_start, TypeOK, RunFlags

\* Every step keeps the types.
LEMMA TypeStep ==
  ASSUME TypeOK, [Next]_vars
  PROVE  TypeOK'
<1>1. /\ run_flag \in RunFlags /\ prevRunFlag \in RunFlags /\ blockingList \subseteq Blockers
      /\ timer_timeout \in BOOLEAN /\ result \in [state : Operations, outcome : Outcomes]
      /\ armed \subseteq Timers /\ stray \in [Timers -> Nat]
      /\ sleepMode \in BOOLEAN /\ asleep \in BOOLEAN /\ raced \in BOOLEAN
      /\ events \in 0..MaxEvents /\ todo \in Seq(Instructions)
  BY DEF TypeOK
\* An instruction is the first of todo, and the rest are instructions.
<1>2. ~Idle => Head(todo) \in Instructions /\ Tail(todo) \in Seq(Instructions)
  BY <1>1 DEF Idle
<1>3. \A p, q \in Seq(Instructions) : p \o q \in Seq(Instructions)
  OBVIOUS
<1>4. \A f : StateOf(f) \in Operations
  BY DEF StateOf, Operations
<1>5. CASE DoStart
  <2>1. Head(todo).arg \in Timers /\ Tail(todo) \in Seq(Instructions)
    BY <1>2, <1>5, InsFacts DEF DoStart
  <2>2. stray' \in [Timers -> Nat] /\ armed' \subseteq Timers
    BY <1>1, <1>5, <2>1 DEF DoStart
  <2> QED
    BY <1>1, <1>5, <2>1, <2>2 DEF DoStart, TypeOK
<1>6. CASE StopBegin
  <2>1. Head(todo).arg \in Timers /\ Tail(todo) \in Seq(Instructions)
    BY <1>2, <1>6, InsFacts DEF StopBegin
  <2>2. << Ins("free", Head(todo).arg) >> \in Seq(Instructions)
    BY <2>1, InsFacts
  <2>3. todo' \in Seq(Instructions)
    BY <1>3, <1>6, <2>1, <2>2 DEF StopBegin
  <2> QED
    BY <1>1, <1>6, <2>3 DEF StopBegin, TypeOK
<1>7. CASE StopEnd
  BY <1>1, <1>2, <1>7 DEF StopEnd, TypeOK
<1>8. CASE DoSetFlag
  <2>1. Head(todo).arg \in {"DET_REC", "REG", "DEREG"} /\ Tail(todo) \in Seq(Instructions)
    BY <1>2, <1>8, InsFacts DEF DoSetFlag
  <2>2. run_flag' \in RunFlags /\ result' \in [state : Operations, outcome : Outcomes]
    BY <1>4, <1>8, <2>1 DEF DoSetFlag, RunFlags, Cleared, Operations, Outcomes
  <2> QED
    BY <1>1, <1>8, <2>1, <2>2 DEF DoSetFlag, TypeOK
<1>9. CASE DoCall
  <2>1. /\ Head(todo).arg \in {"recognition", "registration", "deregistration"}
        /\ Tail(todo) \in Seq(Instructions)
    BY <1>2, <1>9, InsFacts DEF DoCall
  <2>2. Body(Head(todo).arg) \in Seq(Instructions)
    BY <2>1, BodyFacts
  <2>3. todo' \in Seq(Instructions)
    BY <1>3, <1>9, <2>1, <2>2 DEF DoCall
  <2> QED
    BY <1>1, <1>9, <2>3 DEF DoCall, TypeOK
<1>10. CASE CheckTimeout
  <2>1. result' \in [state : Operations, outcome : Outcomes]
    BY <1>1, <1>10 DEF CheckTimeout, Outcomes
  <2> QED
    BY <1>1, <1>2, <1>10, <2>1 DEF CheckTimeout, TypeOK
<1>11. CASE ProcessInferenceResult
  <2>1. /\ _oasis_timers_stop \in Seq(Instructions) /\ << Start("Result") >> \in Seq(Instructions)
        /\ Tail(todo) \in Seq(Instructions)
    BY <1>2, <1>11, InsFacts, TimersStopSeq DEF ProcessInferenceResult, Timers
  <2>2. todo' \in Seq(Instructions)
    BY <1>3, <1>11, <2>1 DEF ProcessInferenceResult
  <2>3. run_flag' \in RunFlags /\ asleep' \in BOOLEAN
    BY <1>1, <1>11 DEF ProcessInferenceResult, RunFlags
  <2> QED
    BY <1>1, <1>11, <2>2, <2>3 DEF ProcessInferenceResult, TypeOK
<1>12. CASE DoSetSleepMode
  BY <1>1, <1>2, <1>12 DEF DoSetSleepMode, TypeOK
<1>13. CASE DoHalt
  BY <1>1, <1>2, <1>13 DEF DoHalt, TypeOK, RunFlags, Cleared, Operations, Outcomes
<1>14. CASE Run
  <2>1. todo' \in Seq(Instructions)
    <3>1. /\ Ins("stop", "QualityCheck") \in Instructions /\ Start("QualityCheck") \in Instructions
          /\ Ins("check", "timeout") \in Instructions /\ Ins("process", "result") \in Instructions
      BY InsFacts DEF Timers
    <3>2. \A i, j \in Instructions : /\ << i >> \in Seq(Instructions)
                                     /\ << i, j >> \in Seq(Instructions)
      OBVIOUS
    <3>3. <<>> \in Seq(Instructions)
      OBVIOUS
    <3>4. PICK q \in { <<>>, << Ins("stop", "QualityCheck") >>,
                       << Ins("stop", "QualityCheck"), Start("QualityCheck") >> } :
            todo' = q \o << Ins("check", "timeout"), Ins("process", "result") >>
      BY <1>14 DEF Run
    <3>5. q \in Seq(Instructions)
      BY <3>1, <3>2, <3>3
    <3> QED
      BY <1>3, <3>1, <3>2, <3>4, <3>5
  <2>2. result' \in [state : Operations, outcome : Outcomes]
    BY <1>4, <1>14 DEF Run, Outcomes
  <2> QED
    BY <1>1, <1>14, <2>1, <2>2 DEF Run, TypeOK
\* The events.
<1>15. ASSUME NEW e, Event(e) PROVE events' \in 0..MaxEvents
  BY <1>1, <1>15, OasisAssumption DEF Event
<1>16. CASE AddUser \/ DelUser
  <2>1. /\ << Call("recognition") >> \in Seq(Instructions)
        /\ << Call("registration") >> \in Seq(Instructions)
        /\ << Call("deregistration") >> \in Seq(Instructions)
    BY InsFacts
  <2>2. todo' \in Seq(Instructions)
    BY <1>16, <2>1 DEF AddUser, DelUser
  <2> QED
    BY <1>1, <1>15, <1>16, <2>2 DEF AddUser, DelUser, TypeOK
<1>17. CASE SetLPMTrigger
  <2>1. /\ Start("Rec") \in Instructions /\ Start("DetFace") \in Instructions
        /\ Ins("stop", "Rec") \in Instructions /\ Ins("stop", "DetFace") \in Instructions
        /\ Ins("sleep", "on") \in Instructions /\ Ins("sleep", "off") \in Instructions
    BY InsFacts DEF Timers
  <2>2. /\ << Start("Rec"), Start("DetFace") >> \in Seq(Instructions)
        /\ << Ins("sleep", "on") >> \in Seq(Instructions) /\ <<>> \in Seq(Instructions)
        /\ << Ins("stop", "Rec"), Ins("stop", "DetFace"), Ins("sleep", "off") >>
             \in Seq(Instructions)
    BY <2>1
  <2>3. todo' \in Seq(Instructions)
    BY <1>3, <1>17, <2>2 DEF SetLPMTrigger
  <2> QED
    BY <1>1, <1>15, <1>17, <2>3 DEF SetLPMTrigger, TypeOK
<1>18. CASE Block
  <2>1. todo' \in Seq(Instructions)
    <3>1. /\ _oasis_timers_stop \in Seq(Instructions)
          /\ << Ins("halt", "STOP") >> \in Seq(Instructions) /\ <<>> \in Seq(Instructions)
      BY InsFacts, TimersStopSeq
    <3> QED
      BY <1>3, <1>18, <3>1 DEF Block, _oasis_stop
  <2>2. blockingList' \subseteq Blockers
    BY <1>1, <1>18 DEF Block, Blockers
  <2> QED
    BY <1>1, <1>15, <1>18, <2>1, <2>2 DEF Block, TypeOK
<1>19. CASE RecordStop
  <2>1. run_flag' \in RunFlags /\ prevRunFlag' \in RunFlags /\ todo' \in Seq(Instructions)
    BY <1>1, <1>19, StartTypes DEF RecordStop
  <2> QED
    BY <1>1, <1>15, <1>19, <2>1 DEF RecordStop, TypeOK
<1>20. CASE UserRun
  <2>1. run_flag' \in RunFlags /\ prevRunFlag' \in RunFlags /\ todo' \in Seq(Instructions)
    BY <1>1, <1>20, StartTypes DEF UserRun
  <2> QED
    BY <1>1, <1>15, <1>20, <2>1 DEF UserRun, TypeOK
\* The timer task.
<1>21. ASSUME NEW t \in Timers, Expire(t) PROVE TypeOK'
  <2>1. raced' \in BOOLEAN
    BY <1>21 DEF Expire, Stopping, Idle
  <2> QED
    BY <1>1, <1>21, <2>1, CallbackTypes DEF Expire, TypeOK
<1>22. ASSUME NEW t \in Timers, ExpireStray(t) PROVE TypeOK'
  <2>1. raced' \in BOOLEAN
    BY <1>22 DEF ExpireStray, Stopping, Idle
  <2>2. stray' \in [Timers -> Nat]
    <3>1. stray[t] \in Nat /\ stray[t] > 0 /\ stray' = [stray EXCEPT ![t] = stray[t] - 1]
      BY <1>1, <1>22 DEF ExpireStray
    <3>2. stray[t] - 1 \in Nat
      BY <3>1
    <3> QED
      BY <1>1, <3>1, <3>2
  <2>3. /\ run_flag' \in RunFlags /\ timer_timeout' \in BOOLEAN /\ asleep' \in BOOLEAN
        /\ result' \in [state : Operations, outcome : Outcomes]
        /\ armed' \subseteq Timers
    <3>1. CASE t \in armed
      BY <1>22, <3>1, CallbackTypes DEF ExpireStray
    <3>2. CASE t \notin armed
      BY <1>1, <1>22, <3>2 DEF ExpireStray
    <3> QED
      BY <3>1, <3>2
  <2> QED
    BY <1>1, <1>22, <2>1, <2>2, <2>3 DEF ExpireStray, TypeOK
<1>23. CASE UNCHANGED vars
  BY <1>1, <1>23 DEF vars, TypeOK
<1> QED
  BY <1>5, <1>6, <1>7, <1>8, <1>9, <1>10, <1>11, <1>12, <1>13, <1>14, <1>16, <1>17,
     <1>18, <1>19, <1>20, <1>21, <1>22, <1>23 DEF Next, AlgoStep, Input, TimerTask

-----------------------------------------------------------------------------
(* The places of the algorithm task.                                       *)

\* The task is at one of the places.
Here == \E a \in Seq(StopIns), b \in Seq(Instructions) : todo = a \o b /\ Place(a, b)

\* The first of the timers to stop, and the others.
LEMMA StopFirst ==
  ASSUME NEW a \in Seq(StopIns), a # <<>>, NEW b \in Seq(Instructions)
  PROVE  /\ a \o b # <<>> /\ Head(a \o b) = Head(a) /\ Tail(a \o b) = Tail(a) \o b
         /\ Head(a) \in StopIns /\ Tail(a) \in Seq(StopIns)
         /\ ToStop(a) = {Head(a).arg} \cup ToStop(Tail(a))
<1>1. Head(a) \in StopIns /\ Tail(a) \in Seq(StopIns) /\ Len(a) \in Nat \ {0}
  OBVIOUS
<1>2. a \o b # <<>> /\ Head(a \o b) = Head(a) /\ Tail(a \o b) = Tail(a) \o b
  <2> DEFINE p == Tail(a \o b)
             q == Tail(a) \o b
  <2>1. a \in Seq(Instructions) /\ Tail(a) \in Seq(Instructions)
    BY <1>1, InsFacts
  <2>2. /\ a \o b \in Seq(Instructions) /\ Len(a \o b) = Len(a) + Len(b)
        /\ \A i \in 1..Len(a) + Len(b) :
             (a \o b)[i] = IF i <= Len(a) THEN a[i] ELSE b[i - Len(a)]
    BY <2>1, ConcatProperties
  <2>3. a \o b # <<>> /\ Head(a \o b) = Head(a)
    BY <1>1, <2>1, <2>2
  <2>4. /\ q \in Seq(Instructions) /\ Len(q) = Len(a) - 1 + Len(b)
        /\ \A i \in 1..Len(a) - 1 + Len(b) :
             q[i] = IF i <= Len(a) - 1 THEN a[i + 1] ELSE b[i - (Len(a) - 1)]
    BY <1>1, <2>1, ConcatProperties
  <2>5. /\ p \in Seq(Instructions) /\ Len(p) = Len(a) - 1 + Len(b)
        /\ \A i \in 1..Len(a) - 1 + Len(b) : p[i] = (a \o b)[i + 1]
    BY <1>1, <2>2, <2>3
  <2>6. \A i \in 1..Len(p) : p[i] = q[i]
    BY <1>1, <2>2, <2>4, <2>5
  <2> HIDE DEF p, q
  <2>7. p = q
    BY <2>4, <2>5, <2>6, SeqEqual
  <2> QED
    BY <2>3, <2>7 DEF p, q
<1>3. \A i \in DOMAIN a : a[i] = Head(a) \/ (i - 1 \in DOMAIN Tail(a) /\ a[i] = Tail(a)[i - 1])
  OBVIOUS
<1>4. \A i \in DOMAIN Tail(a) : i + 1 \in DOMAIN a /\ Tail(a)[i] = a[i + 1]
  OBVIOUS
<1>5. 1 \in DOMAIN a /\ a[1] = Head(a)
  OBVIOUS
<1>6. ToStop(a) = {Head(a).arg} \cup ToStop(Tail(a))
  <2>1. \A u : u \in ToStop(a) <=> \E i \in DOMAIN a : u = a[i].arg
    BY DEF ToStop
  <2>2. \A u : u \in ToStop(Tail(a)) <=> \E i \in DOMAIN Tail(a) : u = Tail(a)[i].arg
    BY DEF ToStop
  <2>3. ASSUME NEW u \in ToStop(a) PROVE u \in {Head(a).arg} \cup ToStop(Tail(a))
    <3>1. PICK i \in DOMAIN a : u = a[i].arg
      BY <2>1, <2>3
    <3>2. CASE a[i] = Head(a)
      BY <3>1, <3>2
    <3>3. CASE i - 1 \in DOMAIN Tail(a) /\ a[i] = Tail(a)[i - 1]
      <4>1. u = Tail(a)[i - 1].arg
        BY <3>1, <3>3
      <4> QED
        BY <2>2, <3>3, <4>1
    <3> QED
      BY <1>3, <3>2, <3>3
  <2>4. ASSUME NEW u \in ToStop(Tail(a)) PROVE u \in ToStop(a)
    BY <1>4, <2>1, <2>2
  <2>5. Head(a).arg \in ToStop(a)
    BY <1>5, <2>1
  <2> QED
    BY <2>3, <2>4, <2>5
<1> QED
  BY <1>1, <1>2, <1>6

\* No timers to stop.
LEMMA StopNone ==
  /\ ToStop(<<>>) = {}
  /\ \A b \in Seq(Instructions) : <<>> \o b = b
  /\ <<>> \in Seq(StopIns)
<1>1. ToStop(<<>>) = {}
  BY DEF ToStop
<1>2. \A b \in Seq(Instructions) : <<>> \o b = b
  BY ConcatEmptySeq
<1> QED
  BY <1>1, <1>2

\* A task about to do something else than to stop a timer has none to stop.
LEMMA NothingToStop ==
  ASSUME Here, todo = <<>> \/ Head(todo).op \notin {"stop", "free"}
  PROVE  Place(<<>>, todo)
<1>1. PICK a \in Seq(StopIns), b \in Seq(Instructions) : todo = a \o b /\ Place(a, b)
  BY DEF Here
<1>2. a = <<>>
  <2>1. CASE a # <<>>
    <3>1. todo # <<>> /\ Head(todo) \in StopIns
      BY <1>1, <2>1, StopFirst
    <3> QED
      BY <3>1 DEF StopIns
  <2> QED
    BY <2>1
<1> QED
  BY <1>1, <1>2, StopNone

\* The callback of a timer leaves the task at the place where it is.
LEMMA CallbackPlace ==
  ASSUME NEW t \in Timers, t \in armed, Callback(t), UNCHANGED blockingList,
         NEW a, NEW b, Place(a, b)
  PROVE  Place(a, b)'
<1>1. CASE t # "Result"
  <2>1. /\ armed' = armed \ Stops(t) /\ timer_timeout' = (timer_timeout \/ t # "QualityCheck")
        /\ UNCHANGED <<run_flag, result, asleep>>
    BY <1>1 DEF Callback, TimeoutCallback
  <2>2. "Result" \in Stops(t) => t = "DetFace"
    BY <1>1 DEF Stops, Timers
  <2>3. Stops(t) \cap {"Reg", "Dereg"} # {} => t # "QualityCheck"
    BY <1>1 DEF Stops, Timers
  <2>4. Blocked => Blocked'
    BY <2>1 DEF Blocked
  <2>5. Timed => Timed'
    BY <2>1, <2>3 DEF Timed
  <2>6. AtRest => AtRest'
    BY <2>1, <2>2, <2>4, <2>5 DEF AtRest
  <2>7. Working => Working'
    BY <2>1 DEF Working
  <2>8. Decided => Decided'
    BY <2>1, <2>7 DEF Decided
  <2>9. \A u : OffAfter(a, u) => OffAfter(a, u)'
    BY <2>1 DEF OffAfter
  <2>10. ("Dereg" \in armed \/ timer_timeout) => ("Dereg" \in armed \/ timer_timeout)'
    BY <2>1, <2>3
  <2> QED
    BY <2>1, <2>4, <2>5, <2>6, <2>7, <2>8, <2>9, <2>10 DEF Place
<1>2. CASE t = "Result"
  <2>1. ResultCallback /\ "Result" \in armed
    BY <1>2 DEF Callback
  <2>2. "Result" \notin armed'
    BY <2>1 DEF ResultCallback
  <2>3. run_flag # "STOP" => run_flag' # "STOP"
    BY <2>1 DEF ResultCallback
  <2>4. Blocked => run_flag # "STOP" /\ Blocked'
    BY <2>1, <2>2, <2>3 DEF Blocked
  <2>5. AtRest => AtRest'
    <3>1. AtRest => /\ (run_flag' = "NUM" /\ asleep') \/ run_flag' = "DET_REC"
                    /\ Blocked'
      BY <2>1, <2>4 DEF AtRest, ResultCallback
    <3> QED
      BY <2>2, <3>1 DEF AtRest, Timed
  <2>6. ~Working /\ ~Decided
    BY <2>1 DEF Working, Decided
  <2>7. OffAfter(a, "Result")'
    BY <2>2 DEF OffAfter
  <2> QED
    BY <2>3, <2>4, <2>5, <2>6, <2>7 DEF Place
<1> QED
  BY <1>1, <1>2

\* Stopping one of the timers leads to the place with the others to stop.
LEMMA StopPlace ==
  ASSUME Here, StopBegin \/ StopEnd
  PROVE  Here'
<1>1. PICK a \in Seq(StopIns), b \in Seq(Instructions) : todo = a \o b /\ Place(a, b)
  BY DEF Here
<1>2. todo # <<>> /\ Head(todo).op \in {"stop", "free"}
  BY DEF StopBegin, StopEnd, Idle
<1>3. a # <<>>
  <2>1. CASE a = <<>>
    <3>1. todo = b /\ Place(<<>>, b)
      BY <1>1, <2>1, StopNone
    <3> QED
      BY <1>2, <3>1 DEF Place, Calls, Sleeps, SleepStarts, Bodies, AfterRecognition,
         AfterRegistration, Inference, Call, Start, SetFlag, Ins
  <2> QED
    BY <2>1
<1> DEFINE x == Head(a).arg
<1>4. /\ Head(todo) = Head(a) /\ Tail(todo) = Tail(a) \o b
      /\ Head(a) \in StopIns /\ Tail(a) \in Seq(StopIns)
      /\ ToStop(a) = {x} \cup ToStop(Tail(a))
  BY <1>1, <1>3, StopFirst
<1>5. /\ UNCHANGED <<run_flag, blockingList, timer_timeout, result, asleep>>
      /\ armed' \subseteq armed /\ armed \ {x} \subseteq armed'
  BY <1>4 DEF StopBegin, StopEnd
<1>6. PICK c \in Seq(StopIns) : /\ todo' = c \o b
                                /\ ToStop(c) \subseteq ToStop(a)
                                /\ ToStop(a) \ ToStop(c) \subseteq {x}
                                /\ x \in ToStop(c) \/ x \notin armed'
  <2>1. CASE StopBegin /\ x \in armed
    <3> DEFINE c == << Ins("free", x) >> \o Tail(a)
    <3>1. Ins("free", x) \in StopIns
      BY <1>4 DEF StopIns, Ins
    <3>2. c \in Seq(StopIns) /\ c # <<>> /\ Head(c) = Ins("free", x) /\ Tail(c) = Tail(a)
      BY <1>4, <3>1
    <3>3. ToStop(c) = {Ins("free", x).arg} \cup ToStop(Tail(a))
      BY <3>2, StopFirst
    <3>4. ToStop(c) = ToStop(a)
      BY <1>4, <3>3 DEF Ins
    <3>5. todo' = << Ins("free", x) >> \o (Tail(a) \o b)
      BY <1>4, <2>1 DEF StopBegin
    <3>6. << Ins("free", x) >> \o (Tail(a) \o b) = c \o b
      BY <1>4, <3>1, InsFacts, ConcatAssociative
    <3> HIDE DEF c
    <3> QED
      BY <1>4, <3>2, <3>4, <3>5, <3>6
  <2>2. CASE StopBegin /\ x \notin armed
    <3>1. todo' = Tail(a) \o b /\ armed' = armed
      BY <1>4, <2>2 DEF StopBegin
    <3> QED
      BY <1>4, <2>2, <3>1
  <2>3. CASE StopEnd
    <3>1. todo' = Tail(a) \o b /\ armed' = armed \ {x}
      BY <1>4, <2>3 DEF StopEnd
    <3> QED
      BY <1>4, <3>1
  <2> QED
    BY <2>1, <2>2, <2>3
<1> HIDE DEF x
<1>7. \A u : OffAfter(a, u) => OffAfter(c, u)'
  BY <1>4, <1>5, <1>6 DEF OffAfter
<1>8. /\ Working => Working'
      /\ Decided => Decided'
  BY <1>5 DEF Working, Decided
<1>9. x \in {"Rec", "DetFace"} /\ AtRest => AtRest'
  BY <1>5 DEF AtRest, Blocked, Timed
<1>10. x \in {"QualityCheck"} /\ Timed => Timed'
  BY <1>5 DEF Timed
<1>11. \A X : ToStop(a) \subseteq X => x \in X /\ ToStop(c) \subseteq X
  BY <1>4, <1>6
<1>12. Place(c, b)'
  BY <1>1, <1>3, <1>5, <1>7, <1>8, <1>9, <1>10, <1>11 DEF Place
<1> QED
  BY <1>6, <1>12 DEF Here

\* The operation and the object of an instruction.
LEMMA InsParts ==
  /\ \A t : Start(t).op = "start" /\ Start(t).arg = t
  /\ \A f : SetFlag(f).op = "flag" /\ SetFlag(f).arg = f
  /\ \A f : Call(f).op = "call"
  /\ \A o, x : Ins(o, x).op = o
BY DEF Start, SetFlag, Call, Ins

\* Taking short sequences apart.
LEMMA ShortSeqs ==
  /\ \A x : Head(<< x >>) = x /\ Tail(<< x >>) = <<>>
  /\ \A x, y : Head(<< x, y >>) = x /\ Tail(<< x, y >>) = << y >>
  /\ \A x, y, z : Head(<< x, y, z >>) = x /\ Tail(<< x, y, z >>) = << y, z >>
<1>1. \A x : Head(<< x >>) = x /\ Tail(<< x >>) = <<>>
  OBVIOUS
<1>2. \A x, y : Head(<< x, y >>) = x /\ Tail(<< x, y >>) = << y >>
  OBVIOUS
<1>3. \A x, y, z : Head(<< x, y, z >>) = x /\ Tail(<< x, y, z >>) = << y, z >>
  OBVIOUS
<1> QED
  BY <1>1, <1>2, <1>3

\* Two instructions followed by a third.
LEMMA PairThenOne ==
  ASSUME NEW x \in Instructions, NEW y \in Instructions, NEW z \in Instructions
  PROVE  << x, y >> \o << z >> = << x, y, z >>
<1> HIDE DEF Instructions
<1> DEFINE u == << x, y >> \o << z >>
           v == << x, y, z >>
<1>1. << x, y >> \in Seq(Instructions)
  OBVIOUS
<1>2. u \in Seq(Instructions) /\ Len(u) = 3 /\ u[1] = x /\ u[2] = y /\ u[3] = z
  BY <1>1
<1>3. v \in Seq(Instructions) /\ Len(v) = 3 /\ v[1] = x /\ v[2] = y /\ v[3] = z
  OBVIOUS
<1> HIDE DEF u, v
<1>4. \A i \in 1 .. 3 : u[i] = v[i]
  BY <1>2, <1>3
<1>5. u = v
  BY <1>2, <1>3, <1>4, SeqEqual
<1> QED
  BY <1>5 DEF u, v

\* The remainders, with their first instruction and what comes behind it.
LEMMA Remainders ==
  ASSUME NEW b
  PROVE  /\ b \in Calls => Head(b).op = "call" /\ Tail(b) = <<>>
         /\ b \in Sleeps => Head(b).op = "sleep" /\ Tail(b) = <<>>
         /\ b \in SleepStarts =>
              /\ Head(b) = Start("Rec") \/ Head(b) = Start("DetFace")
              /\ Tail(b) \in SleepStarts \cup Sleeps
         /\ b \in Bodies =>
              \/ Head(b) = SetFlag("DET_REC") /\ Tail(b) \in AfterRecognition
              \/ Head(b) = SetFlag("REG") /\ Tail(b) \in AfterRegistration
              \/ /\ Head(b) = Start("DetFace")
                 /\ Tail(b) = << Start("Dereg"), SetFlag("DEREG") >>
         /\ b \in AfterRecognition =>
              /\ Head(b) = Start("Rec") \/ Head(b) = Start("DetFace")
              /\ Tail(b) \in AfterRecognition \cup {<<>>}
         /\ b \in AfterRegistration =>
              \/ Head(b) = Start("DetFace") /\ Tail(b) \in AfterRegistration
              \/ Head(b) = Start("Reg") /\ Tail(b) = <<>>
         /\ b = << Start("Dereg"), SetFlag("DEREG") >> =>
              Head(b) = Start("Dereg") /\ Tail(b) = << SetFlag("DEREG") >>
         /\ b = << SetFlag("DEREG") >> => Head(b) = SetFlag("DEREG") /\ Tail(b) = <<>>
         /\ b \in Inference =>
              \/ Head(b) = Start("QualityCheck") /\ Tail(b) \in Inference
              \/ Head(b) = Ins("check", "timeout") /\ Tail(b) = << Ins("process", "result") >>
         /\ b = << Ins("process", "result") >> => Head(b).op = "process" /\ Tail(b) = <<>>
         /\ b = << Start("Result") >> => Head(b) = Start("Result") /\ Tail(b) = <<>>
         /\ b = << Ins("halt", "STOP") >> => Head(b).op = "halt" /\ Tail(b) = <<>>
<1>1. b \in Calls => Head(b).op = "call" /\ Tail(b) = <<>>
  <2>1. ASSUME NEW f, b = << Call(f) >> PROVE Head(b).op = "call" /\ Tail(b) = <<>>
    <3>1. Head(b) = Call(f) /\ Tail(b) = <<>>
      BY <2>1, ShortSeqs, Zenon
    <3> QED
      BY <3>1, InsParts
  <2> QED
    BY <2>1, Zenon DEF Calls
<1>2. \A o, x : b = << Ins(o, x) >> => Head(b).op = o /\ Tail(b) = <<>>
  <2> SUFFICES ASSUME NEW o, NEW x, b = << Ins(o, x) >>
               PROVE  Head(b).op = o /\ Tail(b) = <<>>
    OBVIOUS
  <2>1. Head(b) = Ins(o, x) /\ Tail(b) = <<>>
    BY ShortSeqs, Zenon
  <2> QED
    BY <2>1, InsParts
<1>3. b \in Sleeps => Head(b).op = "sleep" /\ Tail(b) = <<>>
  BY <1>2, Zenon DEF Sleeps
<1>4. ASSUME b \in SleepStarts
      PROVE  /\ Head(b) = Start("Rec") \/ Head(b) = Start("DetFace")
             /\ Tail(b) \in SleepStarts \cup Sleeps
  <2>1. CASE b = << Start("Rec"), Start("DetFace"), Ins("sleep", "on") >>
    <3>1. Head(b) = Start("Rec") /\ Tail(b) = << Start("DetFace"), Ins("sleep", "on") >>
      BY <2>1, ShortSeqs, Zenon
    <3> QED
      BY <3>1, Zenon DEF SleepStarts
  <2>2. CASE b = << Start("DetFace"), Ins("sleep", "on") >>
    <3>1. Head(b) = Start("DetFace") /\ Tail(b) = << Ins("sleep", "on") >>
      BY <2>2, ShortSeqs, Zenon
    <3> QED
      BY <3>1, Zenon DEF Sleeps
  <2> QED
    BY <1>4, <2>1, <2>2, Zenon DEF SleepStarts
<1>5. ASSUME b \in Bodies
      PROVE  \/ Head(b) = SetFlag("DET_REC") /\ Tail(b) \in AfterRecognition
             \/ Head(b) = SetFlag("REG") /\ Tail(b) \in AfterRegistration
             \/ /\ Head(b) = Start("DetFace")
                /\ Tail(b) = << Start("Dereg"), SetFlag("DEREG") >>
  <2>1. CASE b = << SetFlag("DET_REC"), Start("Rec"), Start("DetFace") >>
    <3>1. Head(b) = SetFlag("DET_REC") /\ Tail(b) = << Start("Rec"), Start("DetFace") >>
      BY <2>1, ShortSeqs, Zenon
    <3> QED
      BY <3>1, Zenon DEF AfterRecognition
  <2>2. CASE b = << SetFlag("REG"), Start("DetFace"), Start("Reg") >>
    <3>1. Head(b) = SetFlag("REG") /\ Tail(b) = << Start("DetFace"), Start("Reg") >>
      BY <2>2, ShortSeqs, Zenon
    <3> QED
      BY <3>1, Zenon DEF AfterRegistration
  <2>3. CASE b = << Start("DetFace"), Start("Dereg"), SetFlag("DEREG") >>
    BY <2>3, ShortSeqs, Zenon
  <2> QED
    BY <1>5, <2>1, <2>2, <2>3, Zenon DEF Bodies
<1>6. b \in AfterRecognition => /\ Head(b) = Start("Rec") \/ Head(b) = Start("DetFace")
                                /\ Tail(b) \in AfterRecognition \cup {<<>>}
  BY ShortSeqs, Zenon DEF AfterRecognition
<1>7. b \in AfterRegistration => \/ Head(b) = Start("DetFace") /\ Tail(b) \in AfterRegistration
                                 \/ Head(b) = Start("Reg") /\ Tail(b) = <<>>
  BY ShortSeqs, Zenon DEF AfterRegistration
<1>8. ASSUME b \in Inference
      PROVE  \/ Head(b) = Start("QualityCheck") /\ Tail(b) \in Inference
             \/ Head(b) = Ins("check", "timeout") /\ Tail(b) = << Ins("process", "result") >>
  <2>1. CASE b = << Start("QualityCheck"), Ins("check", "timeout"), Ins("process", "result") >>
    <3>1. /\ Head(b) = Start("QualityCheck")
          /\ Tail(b) = << Ins("check", "timeout"), Ins("process", "result") >>
      BY <2>1, ShortSeqs, Zenon
    <3> QED
      BY <3>1, Zenon DEF Inference
  <2>2. CASE b = << Ins("check", "timeout"), Ins("process", "result") >>
    BY <2>2, ShortSeqs, Zenon
  <2> QED
    BY <1>8, <2>1, <2>2, Zenon DEF Inference
<1>9. /\ b = << Start("Dereg"), SetFlag("DEREG") >> =>
           Head(b) = Start("Dereg") /\ Tail(b) = << SetFlag("DEREG") >>
      /\ b = << SetFlag("DEREG") >> => Head(b) = SetFlag("DEREG") /\ Tail(b) = <<>>
      /\ b = << Start("Result") >> => Head(b) = Start("Result") /\ Tail(b) = <<>>
  BY ShortSeqs, Zenon
<1> QED
  BY <1>1, <1>2, <1>3, <1>4, <1>5, <1>6, <1>7, <1>8, <1>9

\* An instruction other than to stop a timer leads from place to place.
LEMMA AlgoPlace ==
  ASSUME TypeOK', Here,
         \/ DoStart \/ DoSetFlag \/ DoCall \/ CheckTimeout \/ ProcessInferenceResult
         \/ DoSetSleepMode \/ DoHalt
  PROVE  Here'
<1> USE InsParts
<1>1. /\ Place(<<>>, todo) /\ todo # <<>>
      /\ Head(todo).op \in {"start", "flag", "call", "check", "process", "sleep", "halt"}
  <2>1. /\ todo # <<>>
        /\ Head(todo).op \in {"start", "flag", "call", "check", "process", "sleep", "halt"}
    BY DEF DoStart, DoSetFlag, DoCall, CheckTimeout, ProcessInferenceResult,
           DoSetSleepMode, DoHalt, Idle
  <2> QED
    BY <2>1, NothingToStop
\* The places, the first instruction telling some of them apart.
<1>2. CASE DoStart
  <2>1. ~Idle /\ Head(todo).op = "start" /\ todo' = Tail(todo)
        /\ armed' = armed \cup {Head(todo).arg}
        /\ UNCHANGED <<run_flag, blockingList, timer_timeout, result, asleep>>
    BY <1>2 DEF DoStart
  <2>2. Timed => Timed'
    BY <2>1 DEF Timed
  <2>3. Head(todo).arg # "Result" /\ Working => Working'
    BY <2>1 DEF Working
  <2>4. Head(todo).arg # "Result" /\ Working /\ run_flag = "DET_REC" => AtRest'
    BY <2>1 DEF Working, AtRest, Blocked, Timed
  <2>5. CASE todo \in SleepStarts /\ Working /\ run_flag = "DET_REC"
    <3>1. Head(todo).arg \in {"Rec", "DetFace"} /\ todo' \in SleepStarts \cup Sleeps
      BY <2>1, <2>5, Remainders
    <3> QED
      BY <2>1, <2>3, <2>4, <2>5, <3>1, StopNone DEF Here, Place, TypeOK
  <2>6. CASE todo \in Bodies /\ run_flag # "STOP" /\ blockingList = {} /\ OffAfter(<<>>, "Result")
    <3>1. Head(todo).arg = "DetFace" /\ todo' = << Start("Dereg"), SetFlag("DEREG") >>
      BY <2>1, <2>6, Remainders
    <3>2. Working'
      BY <2>1, <2>6, <3>1, StopNone DEF Working, OffAfter
    <3>3. Place(<<>>, todo)'
      BY <3>1, <3>2 DEF Place
    <3> QED
      BY <3>3, StopNone DEF Here, TypeOK
  <2>7. CASE todo \in AfterRecognition /\ Working /\ run_flag = "DET_REC"
    <3>1. Head(todo).arg \in {"Rec", "DetFace"} /\ todo' \in AfterRecognition \cup {<<>>}
      BY <2>1, <2>7, Remainders
    <3>2. Place(<<>>, todo)'
      BY <2>1, <2>3, <2>4, <2>7, <3>1 DEF Place
    <3> QED
      BY <3>2, StopNone DEF Here, TypeOK
  <2>8. CASE todo \in AfterRegistration /\ Working /\ run_flag = "REG"
    <3>1. CASE Head(todo) = Start("DetFace") /\ Tail(todo) \in AfterRegistration
      <4>1. Place(<<>>, todo)'
        BY <2>1, <2>3, <2>8, <3>1 DEF Place
      <4> QED
        BY <4>1, StopNone DEF Here, TypeOK
    <3>2. CASE Head(todo) = Start("Reg") /\ Tail(todo) = <<>>
      <4>1. AtRest'
        BY <2>1, <2>8, <3>2 DEF Working, AtRest, Blocked, Timed
      <4>2. Place(<<>>, todo)'
        BY <2>1, <3>2, <4>1 DEF Place
      <4> QED
        BY <4>2, StopNone DEF Here, TypeOK
    <3> QED
      BY <2>8, <3>1, <3>2, Remainders
  <2>9. CASE todo = << Start("Dereg"), SetFlag("DEREG") >> /\ Working
    <3>1. Head(todo).arg = "Dereg" /\ todo' = << SetFlag("DEREG") >>
      BY <2>1, <2>9, Remainders
    <3>2. Place(<<>>, todo)'
      BY <2>1, <2>3, <2>9, <3>1 DEF Place
    <3> QED
      BY <3>2, StopNone DEF Here, TypeOK
  <2>10. CASE todo \in Inference /\ Decided /\ Timed
    <3>1. Head(todo).arg = "QualityCheck" /\ todo' \in Inference
      BY <2>1, <2>10, Remainders
    <3>2. Decided'
      BY <2>1, <2>3, <2>10, <3>1 DEF Decided
    <3>3. Place(<<>>, todo)'
      BY <2>2, <2>10, <3>1, <3>2, StopNone DEF Place
    <3> QED
      BY <3>3, StopNone DEF Here, TypeOK
  <2>11. CASE todo = << Start("Result") >> /\ Working /\ run_flag = "NUM"
              /\ OffAfter(<<>>, "DetFace")
    <3>1. Head(todo).arg = "Result" /\ todo' = <<>>
      BY <2>1, <2>11, Remainders
    <3>2. AtRest'
      BY <2>1, <2>11, <3>1, StopNone DEF Working, AtRest, Blocked, Timed, OffAfter
    <3>3. Place(<<>>, todo)'
      BY <3>1, <3>2 DEF Place
    <3> QED
      BY <3>3, StopNone DEF Here, TypeOK
  <2> QED
    BY <1>1, <2>1, <2>5, <2>6, <2>7, <2>8, <2>9, <2>10, <2>11, Remainders DEF Place
<1>3. CASE DoSetFlag
  <2>1. /\ Head(todo).op = "flag" /\ todo' = Tail(todo) /\ run_flag' = Head(todo).arg
        /\ UNCHANGED <<blockingList, timer_timeout, armed>>
    BY <1>3 DEF DoSetFlag
  <2>2. CASE todo \in Bodies /\ run_flag # "STOP" /\ blockingList = {} /\ OffAfter(<<>>, "Result")
    <3>1. \/ run_flag' = "DET_REC" /\ todo' \in AfterRecognition
          \/ run_flag' = "REG" /\ todo' \in AfterRegistration
      BY <2>1, <2>2, Remainders
    <3>2. Working'
      BY <2>1, <2>2, <3>1, StopNone DEF Working, OffAfter
    <3>3. Place(<<>>, todo)'
      BY <3>1, <3>2 DEF Place
    <3> QED
      BY <3>3, StopNone DEF Here, TypeOK
  <2>3. CASE todo = << SetFlag("DEREG") >> /\ Working /\ ("Dereg" \in armed \/ timer_timeout)
    <3>1. run_flag' = "DEREG" /\ todo' = <<>>
      BY <2>1, <2>3, Remainders
    <3>2. AtRest'
      BY <2>1, <2>3, <3>1 DEF Working, AtRest, Blocked, Timed
    <3>3. Place(<<>>, todo)'
      BY <3>1, <3>2 DEF Place
    <3> QED
      BY <3>3, StopNone DEF Here, TypeOK
  <2> QED
    BY <1>1, <2>1, <2>2, <2>3, Remainders DEF Place
<1>4. CASE DoCall
  <2>1. /\ Head(todo).op = "call"
        /\ UNCHANGED <<run_flag, blockingList, timer_timeout, result, asleep, armed>>
    BY <1>4 DEF DoCall
  <2>2. todo \in Calls /\ Blocked /\ Tail(todo) = <<>>
    BY <1>1, <2>1, Remainders DEF Place
  <2>3. CASE run_flag = "STOP"
    <3>1. todo' = <<>>
      BY <1>4, <2>2, <2>3 DEF DoCall
    <3>2. AtRest'
      BY <2>1, <2>2, <2>3 DEF AtRest, Blocked, Timed
    <3>3. Place(<<>>, todo)'
      BY <3>1, <3>2 DEF Place
    <3> QED
      BY <3>3, StopNone DEF Here, TypeOK
  <2>4. CASE run_flag # "STOP"
    <3>1. Head(todo).arg \in {"recognition", "registration", "deregistration"}
      <4>1. PICK f \in {"recognition", "registration", "deregistration"} : todo = << Call(f) >>
        BY <2>2, Zenon DEF Calls
      <4>2. Head(todo) = Call(f)
        BY <4>1, ShortSeqs, Zenon
      <4> QED
        BY <4>2 DEF Call, Ins
    <3>2. todo' = Body(Head(todo).arg) \o <<>>
      BY <1>4, <2>2, <2>4 DEF DoCall
    <3>3. PICK b \in Bodies : /\ b \in Seq(Instructions)
                              /\ Body(Head(todo).arg) = _oasis_timers_stop \o b
      BY <3>1, BodyFacts
    <3>4. todo' = _oasis_timers_stop \o b
      BY <3>1, <3>2, <3>3, BodyFacts, ConcatEmptySeq
    <3>5. OffAfter(_oasis_timers_stop, "Result")'
      BY TimersStopSeq DEF OffAfter, Timers
    <3>6. blockingList' = {} /\ run_flag' # "STOP"
      BY <2>1, <2>2, <2>4 DEF Blocked
    <3>7. Place(_oasis_timers_stop, b)'
      BY <3>3, <3>5, <3>6 DEF Place
    <3> QED
      BY <3>3, <3>4, <3>7, TimersStopSeq DEF Here
  <2> QED
    BY <2>3, <2>4
<1>5. CASE CheckTimeout
  <2>1. /\ Head(todo).op = "check" /\ todo' = Tail(todo)
        /\ timer_timeout' = FALSE
        /\ result' = IF result.outcome # "Success" /\ timer_timeout
                     THEN [result EXCEPT !.outcome = "Timeout"] ELSE result
        /\ UNCHANGED <<run_flag, blockingList, armed>>
    BY <1>5 DEF CheckTimeout
  <2>2. todo \in Inference /\ Decided /\ Timed /\ todo' = << Ins("process", "result") >>
    BY <1>1, <2>1, Remainders DEF Place
  <2>3. Decided'
    BY <2>1, <2>2 DEF Decided, Working
  <2>4. Timed' \/ result'.outcome # "Invalid"
    <3>1. CASE timer_timeout
      <4>1. result.outcome = "Success" => result' = result
        BY <2>1
      <4>2. result.outcome # "Success" => result'.outcome = "Timeout"
        <5>1. result' \in [state : Operations, outcome : Outcomes]
          BY DEF TypeOK
        <5> QED
          BY <2>1, <3>1, <5>1
      <4> QED
        BY <4>1, <4>2
    <3>2. CASE ~timer_timeout
      BY <2>1, <2>2, <3>2 DEF Timed
    <3> QED
      BY <3>1, <3>2
  <2>5. Place(<<>>, todo)'
    BY <2>2, <2>3, <2>4 DEF Place
  <2> QED
    BY <2>5, StopNone DEF Here, TypeOK
<1>6. CASE ProcessInferenceResult
  <2>1. /\ Head(todo).op = "process"
        /\ UNCHANGED <<blockingList, timer_timeout, result, armed>>
    BY <1>6 DEF ProcessInferenceResult
  <2>2. /\ todo = << Ins("process", "result") >> /\ Decided /\ Tail(todo) = <<>>
        /\ Timed \/ result.outcome # "Invalid"
    BY <1>1, <2>1, Remainders DEF Place
  <2>3. CASE LockOasis
    <3>1. /\ run_flag' = "NUM"
          /\ todo' = _oasis_timers_stop \o << Start("Result") >> \o <<>>
      BY <1>6, <2>2, <2>3 DEF ProcessInferenceResult
    <3>2. << Start("Result") >> \in Seq(Instructions)
      BY InsFacts DEF Timers
    <3>3. todo' = _oasis_timers_stop \o << Start("Result") >>
      <4>1. _oasis_timers_stop \o << Start("Result") >> \in Seq(Instructions)
        BY <3>2, TimersStopSeq
      <4> QED
        BY <3>1, <4>1, ConcatEmptySeq
    <3>4. Working' /\ OffAfter(_oasis_timers_stop, "DetFace")'
      BY <2>1, <2>2, <3>1, TimersStopSeq DEF Working, Decided, OffAfter, Timers
    <3>5. Place(_oasis_timers_stop, << Start("Result") >>)'
      BY <3>1, <3>4 DEF Place
    <3> QED
      BY <3>2, <3>3, <3>5, TimersStopSeq DEF Here
  <2>4. CASE ~LockOasis
    <3>1. todo' = <<>> /\ UNCHANGED <<run_flag, asleep>>
      BY <1>6, <2>2, <2>4 DEF ProcessInferenceResult
    <3>2. run_flag = "REG" \/ run_flag = "DEREG" => Timed
      BY <2>2, <2>4 DEF LockOasis, Decided, StateOf
    <3>3. Timed
      BY <3>2 DEF Timed
    <3>4. AtRest'
      BY <2>1, <2>2, <3>1, <3>3 DEF AtRest, Blocked, Timed, Decided, Working
    <3>5. Place(<<>>, todo)'
      BY <3>1, <3>4 DEF Place
    <3> QED
      BY <3>5, StopNone DEF Here, TypeOK
  <2> QED
    BY <2>3, <2>4
<1>7. CASE DoSetSleepMode
  <2>1. /\ Head(todo).op = "sleep" /\ todo' = Tail(todo)
        /\ UNCHANGED <<run_flag, blockingList, timer_timeout, result, asleep, armed>>
    BY <1>7 DEF DoSetSleepMode
  <2>2. todo \in Sleeps /\ AtRest /\ todo' = <<>>
    BY <1>1, <2>1, Remainders DEF Place
  <2>3. AtRest'
    BY <2>1, <2>2 DEF AtRest, Blocked, Timed
  <2>4. Place(<<>>, todo)'
    BY <2>2, <2>3 DEF Place
  <2> QED
    BY <2>4, StopNone DEF Here, TypeOK
<1>8. CASE DoHalt
  <2>1. /\ Head(todo).op = "halt" /\ todo' = Tail(todo) /\ run_flag' = "STOP"
        /\ UNCHANGED <<blockingList, timer_timeout, armed>>
    BY <1>8 DEF DoHalt
  <2>2. /\ todo = << Ins("halt", "STOP") >> /\ OffAfter(<<>>, "Result")
        /\ blockingList # {} /\ todo' = <<>>
    BY <1>1, <2>1, Remainders DEF Place
  <2>3. AtRest'
    BY <2>1, <2>2, StopNone DEF AtRest, Blocked, Timed, OffAfter
  <2>4. Place(<<>>, todo)'
    BY <2>2, <2>3 DEF Place
  <2> QED
    BY <2>4, StopNone DEF Here, TypeOK
<1> QED
  BY <1>2, <1>3, <1>4, <1>5, <1>6, <1>7, <1>8

\* An inference or an event begins at rest and leads to a place.
LEMMA BeginPlace ==
  ASSUME TypeOK, TypeOK', Here, Run \/ Input,
         run_flag = "STOP" => prevRunFlag # "STOP"
  PROVE  Here'
<1>1. Idle /\ ~raced
  BY DEF Run, Input, AddUser, DelUser, SetLPMTrigger, Block, RecordStop, UserRun, Event
<1>2. AtRest
  <2>1. Place(<<>>, <<>>)
    BY <1>1, NothingToStop DEF Idle
  <2>2. \A x, y, z : <<>> # << x >> /\ <<>> # << x, y >> /\ <<>> # << x, y, z >>
    OBVIOUS
  <2> QED
    BY <2>1, <2>2, Zenon DEF Place, Calls, Sleeps, SleepStarts, Bodies, AfterRecognition,
       AfterRegistration, Inference
\* A place without timers to stop.
<1>3. ASSUME Place(<<>>, todo)' PROVE Here'
  BY <1>3, StopNone DEF Here, TypeOK
<1>4. CASE Run
  <2>1. /\ UNCHANGED <<run_flag, blockingList, timer_timeout, armed>>
        /\ run_flag \notin {"NUM", "STOP"} /\ result'.state = StateOf(run_flag)
    BY <1>4 DEF Run
  <2>2. Decided' /\ Timed'
    BY <1>2, <2>1 DEF TypeOK, RunFlags, AtRest, Blocked, Timed, Decided, Working
  <2> DEFINE c == << Ins("check", "timeout"), Ins("process", "result") >>
             s == << Ins("stop", "QualityCheck") >>
             d == << Start("QualityCheck"), Ins("check", "timeout"), Ins("process", "result") >>
  <2>3. PICK q \in { <<>>, s, << Ins("stop", "QualityCheck"), Start("QualityCheck") >> } :
          todo' = q \o c
    BY <1>4 DEF Run
  <2>4. /\ c \in Seq(Instructions) /\ d \in Seq(Instructions) /\ s \in Seq(StopIns)
    BY InsFacts DEF Timers
  <2>5. ToStop(s) = {"QualityCheck"}
    BY DEF ToStop, Ins
  <2>6. Place(<<>>, c)' /\ Place(s, c)' /\ Place(s, d)'
    <3>1. c \in Inference /\ d \in Inference
      BY DEF Inference
    <3> HIDE DEF c, d, s
    <3> QED
      BY <2>2, <2>5, <3>1, StopNone DEF Place
  <2>7. CASE q = <<>>
    BY <2>3, <2>4, <2>6, <2>7, StopNone DEF Here
  <2>8. CASE q = s
    BY <2>3, <2>4, <2>6, <2>8 DEF Here
  <2>9. CASE q = << Ins("stop", "QualityCheck"), Start("QualityCheck") >>
    <3>1. todo' = s \o d
      BY <2>3, <2>9
    <3> QED
      BY <2>4, <2>6, <3>1 DEF Here
  <2> QED
    BY <2>3, <2>7, <2>8, <2>9
<1>5. CASE AddUser \/ DelUser
  <2>1. UNCHANGED <<run_flag, blockingList, armed>> /\ todo' \in Calls
    BY <1>5 DEF AddUser, DelUser, Calls
  <2>2. Blocked'
    BY <1>2, <2>1 DEF AtRest, Blocked
  <2> QED
    BY <1>3, <2>1, <2>2 DEF Place
<1>6. CASE SetLPMTrigger
  <2>1. UNCHANGED <<run_flag, blockingList, timer_timeout, asleep, armed>>
    BY <1>6 DEF SetLPMTrigger
  <2>2. AtRest' /\ (run_flag = "DET_REC" => Working')
    BY <1>2, <2>1 DEF AtRest, Blocked, Timed, Working
  <2>3. CASE todo' = (IF run_flag = "DET_REC" THEN << Start("Rec"), Start("DetFace") >> ELSE <<>>)
                     \o << Ins("sleep", "on") >>
    <3>1. CASE run_flag = "DET_REC"
      <4>1. todo' = << Start("Rec"), Start("DetFace"), Ins("sleep", "on") >>
        <5>1. todo' = << Start("Rec"), Start("DetFace") >> \o << Ins("sleep", "on") >>
          BY <2>3, <3>1
        <5>2. Start("Rec") \in Instructions /\ Start("DetFace") \in Instructions
              /\ Ins("sleep", "on") \in Instructions
          BY InsFacts DEF Timers
        <5> QED
          BY <5>1, <5>2, PairThenOne
      <4>2. Place(<<>>, todo)'
        BY <2>1, <2>2, <3>1, <4>1 DEF Place, SleepStarts
      <4> QED
        BY <1>3, <4>2
    <3>2. CASE run_flag # "DET_REC"
      <4>1. todo' = << Ins("sleep", "on") >>
        BY <2>3, <3>2
      <4>2. Place(<<>>, todo)'
        BY <2>2, <4>1, StopNone DEF Place, Sleeps
      <4> QED
        BY <1>3, <4>2
    <3> QED
      BY <3>1, <3>2
  <2>4. CASE todo' = << Ins("stop", "Rec"), Ins("stop", "DetFace"), Ins("sleep", "off") >>
    <3> DEFINE a == << Ins("stop", "Rec"), Ins("stop", "DetFace") >>
               b == << Ins("sleep", "off") >>
    <3>1. todo' = a \o b
      BY <2>4
    <3>2. a \in Seq(StopIns) /\ b \in Seq(Instructions)
      BY InsFacts DEF Timers
    <3>3. ToStop(a) = {"Rec", "DetFace"}
      BY DEF ToStop, Ins
    <3>4. b \in Sleeps
      BY DEF Sleeps
    <3> HIDE DEF a, b
    <3>5. Place(a, b)'
      BY <2>2, <3>3, <3>4 DEF Place
    <3> QED
      BY <3>1, <3>2, <3>5 DEF Here
  <2> QED
    BY <1>6, <2>3, <2>4 DEF SetLPMTrigger
<1>7. CASE Block
  <2>1. /\ UNCHANGED <<run_flag, timer_timeout, asleep, armed>> /\ blockingList' # {}
        /\ todo' = IF run_flag # "STOP" THEN _oasis_stop ELSE <<>>
    BY <1>7 DEF Block
  <2>2. CASE run_flag = "STOP"
    <3>1. AtRest' /\ todo' = <<>>
      BY <1>2, <2>1, <2>2 DEF AtRest, Blocked, Timed
    <3> QED
      BY <1>3, <3>1 DEF Place
  <2>3. CASE run_flag # "STOP"
    <3>1. todo' = _oasis_timers_stop \o << Ins("halt", "STOP") >>
      BY <2>1, <2>3 DEF _oasis_stop
    <3>2. OffAfter(_oasis_timers_stop, "Result")'
      BY TimersStopSeq DEF OffAfter, Timers
    <3>3. Place(_oasis_timers_stop, << Ins("halt", "STOP") >>)'
      BY <2>1, <2>3, <3>2 DEF Place
    <3>4. << Ins("halt", "STOP") >> \in Seq(Instructions)
      BY InsFacts
    <3> QED
      BY <3>1, <3>3, <3>4, TimersStopSeq DEF Here
  <2> QED
    BY <2>2, <2>3
\* The application goes on when the last one that blocked it is gone.
<1>8. ASSUME _oasis_start, blockingList' = {}, prevRunFlag # "STOP", UNCHANGED armed
      PROVE  Here'
  <2>1. run_flag' # "STOP" /\ todo' \in Calls
    BY <1>8 DEF _oasis_start, Calls
  <2>2. Blocked'
    BY <1>8, <2>1 DEF Blocked
  <2> QED
    BY <1>3, <2>1, <2>2 DEF Place
<1>9. ASSUME UNCHANGED <<run_flag, todo, timer_timeout, asleep, armed>>,
             blockingList' = {} <=> blockingList = {}
      PROVE  Here'
  <2>1. AtRest'
    BY <1>2, <1>9 DEF AtRest, Blocked, Timed
  <2>2. todo' = <<>>
    BY <1>1, <1>9 DEF Idle
  <2> QED
    BY <1>3, <2>1, <2>2 DEF Place
<1>10. CASE RecordStop
  <2>1. blockingList' = blockingList \ {"Record"} /\ UNCHANGED <<timer_timeout, asleep, armed>>
    BY <1>10 DEF RecordStop
  <2>2. CASE prevRunFlag = "STOP"
    <3>1. UNCHANGED <<run_flag, todo>>
      BY <1>10, <2>2 DEF RecordStop
    <3>2. blockingList = {}
      BY <1>2, <2>2 DEF AtRest, Blocked
    <3> QED
      BY <1>9, <2>1, <3>1, <3>2
  <2>3. CASE prevRunFlag # "STOP"
    <3>1. _oasis_start
      BY <1>10, <2>3 DEF RecordStop
    <3>2. CASE blockingList' = {}
      BY <1>8, <2>1, <2>3, <3>1, <3>2
    <3>3. CASE blockingList' # {}
      <4>1. UNCHANGED <<run_flag, todo>>
        BY <3>1, <3>3 DEF _oasis_start
      <4> QED
        BY <1>9, <2>1, <3>3, <4>1
    <3> QED
      BY <3>2, <3>3
  <2> QED
    BY <2>2, <2>3
<1>11. CASE UserRun
  <2>1. UNCHANGED <<timer_timeout, asleep, armed>>
    BY <1>11 DEF UserRun
  <2>2. CASE run_flag = "STOP"
    <3>1. _oasis_start /\ blockingList' = blockingList \ {"UserInput"}
      BY <1>11, <2>2 DEF UserRun
    <3>2. CASE blockingList' = {}
      BY <1>8, <2>1, <2>2, <3>1, <3>2
    <3>3. CASE blockingList' # {}
      <4>1. UNCHANGED <<run_flag, todo>>
        BY <3>1, <3>3 DEF _oasis_start
      <4> QED
        BY <1>9, <2>1, <3>1, <3>3, <4>1
    <3> QED
      BY <3>2, <3>3
  <2>3. CASE run_flag # "STOP"
    BY <1>9, <1>11, <2>1, <2>3 DEF UserRun
  <2> QED
    BY <2>2, <2>3
<1> QED
  BY <1>4, <1>5, <1>6, <1>7, <1>10, <1>11 DEF Input

\* The places hold after the initialisation.
LEMMA PlaceInit ==
  ASSUME Init
  PROVE  PlaceInv
<1>1. AtRest
  BY DEF Init, AtRest, Blocked, Timed
<1>2. Place(<<>>, <<>>)
  BY <1>1 DEF Place
<1>3. todo = <<>> \o <<>> /\ <<>> \in Seq(StopIns) /\ <<>> \in Seq(Instructions)
  BY DEF Init
<1>4. run_flag # "STOP"
  BY DEF Init
<1> QED
  BY <1>2, <1>3, <1>4 DEF PlaceInv

\* A stopped application keeps a run flag to return to.
LEMMA ReturnStep ==
  ASSUME Here, run_flag = "STOP" => prevRunFlag # "STOP", Next
  PROVE  (run_flag = "STOP" => prevRunFlag # "STOP")'
<1>1. CASE UNCHANGED <<run_flag, prevRunFlag>>
  BY <1>1
<1>2. CASE run_flag' # "STOP"
  BY <1>2
<1>3. CASE DoHalt
  <2>1. Place(<<>>, todo) /\ todo # <<>> /\ Head(todo).op = "halt" /\ prevRunFlag' = run_flag
    BY <1>3, NothingToStop DEF DoHalt, Idle
  <2>2. run_flag # "STOP"
    <3> USE InsParts
    <3> QED
      BY <2>1, Remainders DEF Place
  <2> QED
    BY <2>1, <2>2
<1>4. CASE DoSetFlag
  <2>1. Place(<<>>, todo) /\ todo # <<>> /\ Head(todo).op = "flag" /\ run_flag' = Head(todo).arg
    BY <1>4, NothingToStop DEF DoSetFlag, Idle
  <2>2. Head(todo).arg # "STOP"
    <3> USE InsParts
    <3> QED
      BY <2>1, Remainders DEF Place
  <2> QED
    BY <2>1, <2>2
<1>5. _oasis_start => UNCHANGED <<run_flag, prevRunFlag>> \/ run_flag' = prevRunFlag
  BY DEF _oasis_start
<1>6. CASE RecordStop
  BY <1>1, <1>2, <1>5, <1>6 DEF RecordStop
<1>7. CASE UserRun
  <2>1. run_flag # "STOP" => UNCHANGED <<run_flag, prevRunFlag>>
    BY <1>7 DEF UserRun
  <2>2. run_flag = "STOP" => _oasis_start
    BY <1>7 DEF UserRun
  <2> QED
    BY <1>1, <1>2, <1>5, <2>1, <2>2
<1>8. CASE ProcessInferenceResult
  <2>1. UNCHANGED run_flag \/ run_flag' = "NUM"
    BY <1>8 DEF ProcessInferenceResult
  <2>2. UNCHANGED prevRunFlag
    BY <1>8 DEF ProcessInferenceResult
  <2> QED
    BY <2>1, <2>2
<1>9. ASSUME NEW t \in Timers, Callback(t) PROVE UNCHANGED run_flag \/ run_flag' # "STOP"
  BY <1>9 DEF Callback, ResultCallback, TimeoutCallback
<1>10. ASSUME NEW t \in Timers, Expire(t) \/ ExpireStray(t)
       PROVE  UNCHANGED prevRunFlag /\ (UNCHANGED run_flag \/ run_flag' # "STOP")
  BY <1>9, <1>10 DEF Expire, ExpireStray
<1>11. CASE TimerTask
  BY <1>1, <1>2, <1>10, <1>11 DEF TimerTask
<1>12. CASE \/ DoStart \/ StopBegin \/ StopEnd \/ DoCall \/ CheckTimeout \/ DoSetSleepMode
            \/ Run \/ AddUser \/ DelUser \/ SetLPMTrigger \/ Block
  BY <1>1, <1>12 DEF DoStart, StopBegin, StopEnd, DoCall, CheckTimeout, DoSetSleepMode,
     Run, AddUser, DelUser, SetLPMTrigger, Block
<1> QED
  BY <1>3, <1>4, <1>6, <1>7, <1>8, <1>11, <1>12 DEF Next, AlgoStep, Input

\* A timer used after it was freed stays used.
LEMMA RacedStays ==
  ASSUME [Next]_vars, raced
  PROVE  raced'
<1>1. CASE AlgoStep
  BY <1>1 DEF AlgoStep, DoStart, StopBegin, StopEnd, DoSetFlag, DoCall, CheckTimeout,
     ProcessInferenceResult, DoSetSleepMode, DoHalt
<1>2. ~Run /\ ~Input /\ ~TimerTask
  BY DEF Run, Input, AddUser, DelUser, SetLPMTrigger, Block, RecordStop, UserRun, Event,
     TimerTask, Expire, ExpireStray
<1>3. CASE UNCHANGED vars
  BY <1>3 DEF vars
<1> QED
  BY <1>1, <1>2, <1>3 DEF Next

\* Every step leads from a place to a place.
LEMMA PlaceStep ==
  ASSUME TypeOK, TypeOK', PlaceInv, [Next]_vars
  PROVE  PlaceInv'
<1>1. CASE raced'
  BY <1>1 DEF PlaceInv
<1>2. CASE ~raced' /\ UNCHANGED vars
  <2>1. ~raced
    BY <1>2 DEF vars
  <2>2. Here /\ (run_flag = "STOP" => prevRunFlag # "STOP")
    BY <2>1 DEF PlaceInv, Here
  <2>3. Here'
    <3>1. PICK a \in Seq(StopIns), b \in Seq(Instructions) : todo = a \o b /\ Place(a, b)
      BY <2>2 DEF Here
    <3>2. Place(a, b)'
      BY <1>2, <3>1 DEF vars, Place, AtRest, Blocked, Timed, Working, Decided, OffAfter
    <3> QED
      BY <1>2, <3>1, <3>2 DEF vars, Here
  <2> QED
    BY <1>2, <2>2, <2>3 DEF vars, PlaceInv, Here
<1>3. CASE ~raced' /\ Next
  <2>1. ~raced
    BY <1>3, RacedStays
  <2>2. Here /\ (run_flag = "STOP" => prevRunFlag # "STOP")
    BY <2>1 DEF PlaceInv, Here
  <2>3. (run_flag = "STOP" => prevRunFlag # "STOP")'
    BY <1>3, <2>2, ReturnStep
  <2>4. ASSUME NEW t \in Timers, Expire(t) \/ ExpireStray(t) PROVE Here'
    <3>1. PICK a \in Seq(StopIns), b \in Seq(Instructions) : todo = a \o b /\ Place(a, b)
      BY <2>2 DEF Here
    <3>2. UNCHANGED <<todo, blockingList>>
      BY <2>4 DEF Expire, ExpireStray
    <3>3. CASE t \in armed /\ Callback(t)
      <4>1. Place(a, b)'
        BY <3>1, <3>2, <3>3, CallbackPlace
      <4> QED
        BY <3>1, <3>2, <4>1 DEF Here
    <3>4. CASE UNCHANGED <<run_flag, result, asleep, armed, timer_timeout>>
      <4>1. Place(a, b)'
        BY <3>1, <3>2, <3>4 DEF Place, AtRest, Blocked, Timed, Working, Decided, OffAfter
      <4> QED
        BY <3>1, <3>2, <4>1 DEF Here
    <3> QED
      BY <2>4, <3>3, <3>4 DEF Expire, ExpireStray
  <2>5. CASE StopBegin \/ StopEnd
    BY <2>2, <2>3, <2>5, StopPlace DEF PlaceInv, Here
  <2>6. CASE \/ DoStart \/ DoSetFlag \/ DoCall \/ CheckTimeout \/ ProcessInferenceResult
             \/ DoSetSleepMode \/ DoHalt
    BY <2>2, <2>3, <2>6, AlgoPlace DEF PlaceInv, Here
  <2>7. CASE Run \/ Input
    BY <2>2, <2>3, <2>7, BeginPlace DEF PlaceInv, Here
  <2>8. CASE TimerTask
    BY <2>3, <2>4, <2>8 DEF TimerTask, PlaceInv, Here
  <2> QED
    BY <1>3, <2>5, <2>6, <2>7, <2>8 DEF Next, AlgoStep
<1> QED
  BY <1>1, <1>2, <1>3

-----------------------------------------------------------------------------
(* Theorems.                                                               *)

\* The types and the places hold in every state.
LEMMA PlaceAlways == Spec => [](TypeOK /\ PlaceInv)
<1>1. Init => TypeOK /\ PlaceInv
  BY TypeInit, PlaceInit
<1>2. TypeOK /\ PlaceInv /\ [Next]_vars => TypeOK' /\ PlaceInv'
  BY TypeStep, PlaceStep
<1> QED
  BY <1>1, <1>2, PTL DEF Spec

\* At rest, up to the use of a freed timer, what is true at rest is true.
LEMMA RestSound ==
  ASSUME PlaceInv, Idle, ~raced
  PROVE  AtRest
<1>1. Here
  BY DEF PlaceInv, Here
<1>2. Place(<<>>, <<>>)
  BY <1>1, NothingToStop DEF Idle
<1>3. \A x, y, z : <<>> # << x >> /\ <<>> # << x, y >> /\ <<>> # << x, y, z >>
  OBVIOUS
<1> QED
  BY <1>2, <1>3, Zenon DEF Place, Calls, Sleeps, SleepStarts, Bodies, AfterRecognition,
     AfterRegistration, Inference

\* Every variable of the application has its type, in both modes and whatever
\* events arrive.
THEOREM TypeCorrect == Spec => []TypeOK
BY PlaceAlways, PTL

\* At rest the application is stopped exactly while somebody blocks it: neither
\* the callback of a timer nor a start function brings it back to life, and the
\* last one to unblock it does.
THEOREM StoppedExactlyWhileBlocked == Spec => []StoppedIffBlocked
<1>1. PlaceInv => StoppedIffBlocked
  BY RestSound DEF StoppedIffBlocked, AtRest, Blocked
<1> QED
  BY <1>1, PlaceAlways, PTL

\* Wherever the callbacks of the timers fall, at rest a registration, a
\* deregistration and a shown result have a running timer or a noted expiry
\* that ends them.
THEOREM EveryOperationCanEnd == Spec => []OperationCanEnd
<1>1. PlaceInv => OperationCanEnd
  BY RestSound DEF OperationCanEnd, AtRest, Timed
<1> QED
  BY <1>1, PlaceAlways, PTL
=============================================================================
