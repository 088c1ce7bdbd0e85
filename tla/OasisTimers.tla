----------------------------- MODULE OasisTimers -----------------------------
(***************************************************************************)
(* The Oasis Lite 2D application as a state machine driven by two tasks:   *)
(* the algorithm task, which runs the inference and handles events, and    *)
(* the FreeRTOS timer task, which runs the callbacks of the framework      *)
(* timers (core/fwk_timer.c).  The timer task has the highest priority, so *)
(* a callback runs as a whole between any two steps of the algorithm task; *)
(* the algorithm task goes on inside a callback only when the callback     *)
(* waits for the lock of a timer that is being stopped.                    *)
(*                                                                         *)
(* The algorithm task works off todo, the rest of the C function it is in: *)
(* one instruction is one call of FWK_Timer_Start, one half of             *)
(* FWK_Timer_Stop (its beginning, then the release of the timer), or the   *)
(* assignments between two such calls.                                     *)
(***************************************************************************)
EXTENDS Naturals, Sequences, FiniteSets

CONSTANTS Mode,       \* kOASISLiteMode_SmartLock or kOASISLiteMode_FFI
          Events,     \* the input events that may arrive
          MaxEvents   \* how many of them do

VARIABLES run_flag,       \* s_OasisLite.run_flag
          prevRunFlag,    \* s_OasisLite.prevRunFlag
          blockingList,   \* s_blockingList
          timer_timeout,  \* s_OasisLite.timer_timeout
          result,         \* s_OasisLite.result: operation and outcome
          armed,          \* the timers whose pointer in s_OasisLite is set
          stray,          \* running timers whose pointer was overwritten
          sleepMode,      \* the sleep mode of the configuration
          asleep,         \* run_flag is NUM to wait for low power mode
          todo,           \* what the algorithm task still has to do
          raced,          \* a timer was used after it was freed
          events          \* the events so far

vars == <<run_flag, prevRunFlag, blockingList, timer_timeout, result, armed,
          stray, sleepMode, asleep, todo, raced, events>>

Timers == {"Reg", "DetFace", "Dereg", "Rec", "Result", "QualityCheck"}
Operations == {"Recognition", "Registration", "DeRegistration"}
RunFlags == {"DET_REC", "REG", "DEREG", "NUM", "STOP"}
Blockers == {"UserInput", "Record"}
Outcomes == {"Invalid", "Success", "Timeout"}
AllEvents == {"AddUserNamed", "AddUser", "DelUser", "SleepEnable",
              "SleepDisable", "RecordStart", "RecordStop", "UserStop",
              "UserRun"}

ASSUME OasisAssumption == /\ Mode \in {"SmartLock", "FFI"}
                          /\ Events \subseteq AllEvents
                          /\ MaxEvents \in Nat

-----------------------------------------------------------------------------
(* Instructions of the algorithm task.                                      *)

Ins(op, arg) == [op |-> op, arg |-> arg]

Start(t) == Ins("start", t)
SetFlag(f) == Ins("flag", f)
Call(f) == Ins("call", f)

\* Mutant: the result timer is forgotten when the timers are stopped.
TimersStopAllButResult ==
  << Ins("stop", "Reg"), Ins("stop", "DetFace"), Ins("stop", "Dereg"),
     Ins("stop", "Rec"), Ins("stop", "QualityCheck") >>

\* The timers in the order in which they are stopped.
_oasis_timers_stop ==
  << Ins("stop", "Reg"), Ins("stop", "DetFace"), Ins("stop", "Dereg"),
     Ins("stop", "Rec"), Ins("stop", "Result"), Ins("stop", "QualityCheck") >>

\* A result record as memset leaves it: operation 0 is recognition.
Cleared == [state |-> "Recognition", outcome |-> "Invalid"]

_oasis_start_recognition ==
  _oasis_timers_stop \o << SetFlag("DET_REC"), Start("Rec"), Start("DetFace") >>

\* Mutant: the registration timer is not started.
RegistrationWithoutTimer ==
  _oasis_timers_stop \o << SetFlag("REG"), Start("DetFace") >>

_oasis_start_registration ==
  _oasis_timers_stop \o << SetFlag("REG"), Start("DetFace"), Start("Reg") >>

\* The run flag changes only after the timers run.
_oasis_start_deregistration ==
  _oasis_timers_stop \o << Start("DetFace"), Start("Dereg"), SetFlag("DEREG") >>

\* The body of a start function; the caller has seen that nothing is stopped.
Body(f) == CASE f = "recognition" -> _oasis_start_recognition
             [] f = "registration" -> _oasis_start_registration
             [] f = "deregistration" -> _oasis_start_deregistration

-----------------------------------------------------------------------------
(* The application after its initialisation, which ends with               *)
(* _oasis_start_recognition.  The first prevRunFlag is not "stopped".      *)

Init ==
  /\ run_flag = "DET_REC"
  /\ prevRunFlag = "NUM"
  /\ blockingList = {}
  /\ timer_timeout = FALSE
  /\ result = Cleared
  /\ armed = {"Rec", "DetFace"}
  /\ stray = [t \in Timers |-> 0]
  /\ sleepMode \in BOOLEAN
  /\ asleep = FALSE
  /\ todo = <<>>
  /\ raced = FALSE
  /\ events = 0

-----------------------------------------------------------------------------
(* The algorithm task.                                                      *)

Idle == todo = <<>>

\* FWK_Timer_Start sets the pointer to a new timer whatever it was before.
DoStart ==
  /\ ~Idle /\ Head(todo).op = "start"
  /\ LET t == Head(todo).arg IN
     /\ armed' = armed \union {t}
     /\ stray' = IF t \in armed THEN [stray EXCEPT ![t] = @ + 1] ELSE stray
  /\ todo' = Tail(todo)
  /\ UNCHANGED <<run_flag, prevRunFlag, blockingList, timer_timeout, result,
                 sleepMode, asleep, raced, events>>

\* FWK_Timer_Stop up to its end: the pointer is read, then the lock taken.
StopBegin ==
  /\ ~Idle /\ Head(todo).op = "stop"
  /\ todo' = IF Head(todo).arg \in armed
             THEN << Ins("free", Head(todo).arg) >> \o Tail(todo)
             ELSE Tail(todo)
  /\ UNCHANGED <<run_flag, prevRunFlag, blockingList, timer_timeout, result,
                 armed, stray, sleepMode, asleep, raced, events>>

\* The rest of FWK_Timer_Stop: the timer is deleted and its pointer cleared.
StopEnd ==
  /\ ~Idle /\ Head(todo).op = "free"
  /\ armed' = armed \ {Head(todo).arg}
  /\ todo' = Tail(todo)
  /\ UNCHANGED <<run_flag, prevRunFlag, blockingList, timer_timeout, result,
                 stray, sleepMode, asleep, raced, events>>

\* The assignments of the start functions: run flag and cleared result.
StateOf(f) == CASE f = "REG" -> "Registration"
                [] f = "DEREG" -> "DeRegistration"
                [] OTHER -> "Recognition"

DoSetFlag ==
  /\ ~Idle /\ Head(todo).op = "flag"
  /\ run_flag' = Head(todo).arg
  /\ result' = [Cleared EXCEPT !.state = StateOf(Head(todo).arg)]
  /\ asleep' = FALSE
  /\ todo' = Tail(todo)
  /\ UNCHANGED <<prevRunFlag, blockingList, timer_timeout, armed, stray,
                 sleepMode, raced, events>>

\* A start function does nothing while the application is stopped.
DoCall ==
  /\ ~Idle /\ Head(todo).op = "call"
  /\ todo' = IF run_flag = "STOP" THEN Tail(todo)
             ELSE Body(Head(todo).arg) \o Tail(todo)
  /\ UNCHANGED <<run_flag, prevRunFlag, blockingList, timer_timeout, result,
                 armed, stray, sleepMode, asleep, raced, events>>

-----------------------------------------------------------------------------
(* HAL_VisionAlgoDev_OasisLite_Run: the inference, the look at the timeout,  *)
(* the decision.                                                            *)

\* OASISLT_run_extend chooses the outcome; when the quality of the face
\* changes, its event callback stops and maybe restarts the quality timer.
Run ==
  /\ Idle /\ ~raced
  /\ run_flag \notin {"NUM", "STOP"}
  /\ \E o \in {"Invalid", "Success"},
        q \in { <<>>, << Ins("stop", "QualityCheck") >>,
               << Ins("stop", "QualityCheck"), Start("QualityCheck") >> } :
       /\ result' = [state |-> StateOf(run_flag), outcome |-> o]
       /\ todo' = q \o << Ins("check", "timeout"), Ins("process", "result") >>
  /\ UNCHANGED <<run_flag, prevRunFlag, blockingList, timer_timeout, armed,
                 stray, sleepMode, asleep, raced, events>>

\* Mutant: the timeout is looked at in recognition only.
CheckTimeoutInRecognition ==
  /\ ~Idle /\ Head(todo).op = "check"
  /\ IF result.state = "Recognition" /\ timer_timeout
     THEN /\ timer_timeout' = FALSE
          /\ result' = IF result.outcome # "Success"
                       THEN [result EXCEPT !.outcome = "Timeout"] ELSE result
     ELSE UNCHANGED <<timer_timeout, result>>
  /\ todo' = Tail(todo)
  /\ UNCHANGED <<run_flag, prevRunFlag, blockingList, armed, stray, sleepMode,
                 asleep, raced, events>>

\* _oasis_lite_check_timeout: a success wins over a timeout.
CheckTimeout ==
  /\ ~Idle /\ Head(todo).op = "check"
  /\ timer_timeout' = FALSE
  /\ result' = IF result.outcome # "Success" /\ timer_timeout
               THEN [result EXCEPT !.outcome = "Timeout"] ELSE result
  /\ todo' = Tail(todo)
  /\ UNCHANGED <<run_flag, prevRunFlag, blockingList, armed, stray, sleepMode,
                 asleep, raced, events>>

\* Does the outcome end the operation?  (lockOasis)
LockOasis == /\ result.outcome # "Invalid"
             /\ result.state = "Recognition" => Mode = "SmartLock"

\* _process_inference_result: a decided operation shows its result until the
\* result timer expires.  Resetting the no-face timer only moves its time.
ProcessInferenceResult ==
  /\ ~Idle /\ Head(todo).op = "process"
  /\ IF LockOasis
     THEN /\ run_flag' = "NUM"
          /\ asleep' = FALSE
          /\ todo' = _oasis_timers_stop \o << Start("Result") >> \o Tail(todo)
     ELSE /\ todo' = Tail(todo)
          /\ UNCHANGED <<run_flag, asleep>>
  /\ UNCHANGED <<prevRunFlag, blockingList, timer_timeout, result, armed,
                 stray, sleepMode, raced, events>>

-----------------------------------------------------------------------------
(* HAL_VisionAlgoDev_OasisLite_InputNotify: the events.                     *)

Event(e) ==
  /\ e \in Events
  /\ Idle /\ ~raced
  /\ events < MaxEvents
  /\ events' = events + 1

\* A registration without a name ends one that is under way.
AddUser ==
  /\ \/ Event("AddUserNamed") /\ todo' = << Call("registration") >>
     \/ /\ Event("AddUser")
        /\ todo' = << Call(IF run_flag = "REG" THEN "recognition"
                          ELSE "registration") >>
  /\ UNCHANGED <<run_flag, prevRunFlag, blockingList, timer_timeout, result,
                 armed, stray, sleepMode, asleep, raced>>

\* Neither name nor number: the next recognised face is to be deleted.
DelUser ==
  /\ Event("DelUser")
  /\ todo' = << Call(IF run_flag = "DEREG" THEN "recognition"
                    ELSE "deregistration") >>
  /\ UNCHANGED <<run_flag, prevRunFlag, blockingList, timer_timeout, result,
                 armed, stray, sleepMode, asleep, raced>>

\* The timers are started again without a look at the ones that run.
SetLPMTrigger ==
  /\ \/ /\ Event("SleepEnable")
        /\ todo' = (IF run_flag = "DET_REC"
                    THEN << Start("Rec"), Start("DetFace") >> ELSE <<>>)
                   \o << Ins("sleep", "on") >>
     \/ /\ Event("SleepDisable")
        /\ todo' = << Ins("stop", "Rec"), Ins("stop", "DetFace"),
                      Ins("sleep", "off") >>
  /\ UNCHANGED <<run_flag, prevRunFlag, blockingList, timer_timeout, result,
                 armed, stray, sleepMode, asleep, raced>>

DoSetSleepMode ==
  /\ ~Idle /\ Head(todo).op = "sleep"
  /\ sleepMode' = (Head(todo).arg = "on")
  /\ todo' = Tail(todo)
  /\ UNCHANGED <<run_flag, prevRunFlag, blockingList, timer_timeout, result,
                 armed, stray, asleep, raced, events>>

\* _oasis_stop after its timers: the run flag is saved.
DoHalt ==
  /\ ~Idle /\ Head(todo).op = "halt"
  /\ prevRunFlag' = run_flag
  /\ run_flag' = "STOP"
  /\ result' = Cleared
  /\ todo' = Tail(todo)
  /\ UNCHANGED <<blockingList, timer_timeout, armed, stray, sleepMode, asleep,
                 raced, events>>

_oasis_stop == _oasis_timers_stop \o << Ins("halt", "STOP") >>

\* _oasis_start: only when nobody blocks any more.
_oasis_start ==
  IF blockingList' = {}
  THEN /\ run_flag' = prevRunFlag
       /\ prevRunFlag' = "STOP"
       /\ todo' = << Call("recognition") >>
  ELSE UNCHANGED <<run_flag, prevRunFlag, todo>>

\* kEventID_RecordingState start, kEventFaceRecID_OasisSetState stopped.
Block ==
  /\ \/ Event("RecordStart") /\ blockingList' = blockingList \union {"Record"}
     \/ Event("UserStop") /\ blockingList' = blockingList \union {"UserInput"}
  /\ todo' = IF run_flag # "STOP" THEN _oasis_stop ELSE <<>>
  /\ UNCHANGED <<run_flag, prevRunFlag, timer_timeout, result, armed, stray,
                 sleepMode, asleep, raced>>

\* kEventID_RecordingState stop: starts if a saved run flag is there.
RecordStop ==
  /\ Event("RecordStop")
  /\ blockingList' = blockingList \ {"Record"}
  /\ IF prevRunFlag # "STOP" THEN _oasis_start
     ELSE UNCHANGED <<run_flag, prevRunFlag, todo>>
  /\ UNCHANGED <<timer_timeout, result, armed, stray, sleepMode, asleep, raced>>

\* kEventFaceRecID_OasisSetState running: refused unless stopped.
UserRun ==
  /\ Event("UserRun")
  /\ IF run_flag = "STOP"
     THEN blockingList' = blockingList \ {"UserInput"} /\ _oasis_start
     ELSE UNCHANGED <<blockingList, run_flag, prevRunFlag, todo>>
  /\ UNCHANGED <<timer_timeout, result, armed, stray, sleepMode, asleep, raced>>

-----------------------------------------------------------------------------
(* The timer task.                                                          *)

\* The timers that the callback of t stops, t itself (at the end of
\* _FWK_Timer_Callback) included.
Stops(t) == CASE t \in {"DetFace", "Result"} -> Timers
              [] t \in {"Rec", "Reg", "Dereg"} -> {t, "DetFace"}
              [] t = "QualityCheck" -> {t}

\* _oasis_timer_noface_detected, _oasis_timer_registration,
\* _oasis_timer_deregistration, _oasis_timer_rec.
TimeoutCallback(t) ==
  /\ armed' = armed \ Stops(t)
  /\ timer_timeout' = (timer_timeout \/ t # "QualityCheck")
  /\ UNCHANGED <<run_flag, result, asleep>>

\* _oasis_timer_result: low power after a recognition, if it is wanted and
\* nobody uses the system, else a new recognition (unless stopped).
ResultCallback ==
  \/ /\ result.state = "Recognition" /\ sleepMode
     /\ run_flag' = "NUM"
     /\ asleep' = TRUE
     /\ armed' = armed \ {"Result"}
     /\ UNCHANGED <<result, timer_timeout>>
  \/ /\ run_flag # "STOP"
     /\ run_flag' = "DET_REC"
     /\ result' = Cleared
     /\ asleep' = FALSE
     /\ armed' = {"Rec", "DetFace"}
     /\ UNCHANGED timer_timeout
  \/ /\ run_flag = "STOP"
     /\ armed' = armed \ {"Result"}
     /\ UNCHANGED <<run_flag, result, asleep, timer_timeout>>

Callback(t) == IF t = "Result" THEN ResultCallback ELSE TimeoutCallback(t)

\* Is the algorithm task inside FWK_Timer_Stop for a timer of T?
Stopping(T) == ~Idle /\ Head(todo).op = "free" /\ Head(todo).arg \in T

\* A timer expires.  If its callback stops the timer that the algorithm task
\* is stopping, one of the two works on memory the other has freed: what
\* follows is undefined, and the model ends there.
Expire(t) ==
  /\ ~raced
  /\ t \in armed
  /\ raced' = Stopping(Stops(t))
  /\ Callback(t)
  /\ UNCHANGED <<prevRunFlag, blockingList, stray, sleepMode, todo, events>>

\* Mutant: the callback of an overwritten timer runs though it is gone.
ExpireStrayAgain(t) ==
  /\ ~raced
  /\ stray' = [stray EXCEPT ![t] = @ - 1]
  /\ UNCHANGED <<run_flag, prevRunFlag, blockingList, timer_timeout, result,
                 armed, sleepMode, asleep, todo, raced, events>>

\* A running timer whose pointer now names a newer one: the callback finds the
\* timer through the pointer, and so acts for the newer one.
ExpireStray(t) ==
  /\ ~raced
  /\ stray[t] > 0
  /\ raced' = (t \in armed /\ Stopping(Stops(t)))
  /\ stray' = [stray EXCEPT ![t] = @ - 1]
  /\ IF t \in armed THEN Callback(t)
     ELSE UNCHANGED <<run_flag, result, asleep, armed, timer_timeout>>
  /\ UNCHANGED <<prevRunFlag, blockingList, sleepMode, todo, events>>

-----------------------------------------------------------------------------
AlgoStep == \/ DoStart \/ StopBegin \/ StopEnd \/ DoSetFlag \/ DoCall
            \/ CheckTimeout \/ ProcessInferenceResult \/ DoSetSleepMode
            \/ DoHalt

Input == AddUser \/ DelUser \/ SetLPMTrigger \/ Block \/ RecordStop \/ UserRun

TimerTask == \E t \in Timers : Expire(t) \/ ExpireStray(t)

Next == Run \/ AlgoStep \/ Input \/ TimerTask

Spec == Init /\ [][Next]_vars

\* The tasks run, frames keep coming (FramePipeline) and a timer that nobody
\* stops expires.  The no-face timer is reset by every face, so nothing is
\* assumed of it, nor of the events.
Fairness == /\ WF_vars(AlgoStep)
            /\ WF_vars(Run)
            /\ \A t \in Timers \ {"DetFace"} : WF_vars(Expire(t))

FairSpec == Spec /\ Fairness

-----------------------------------------------------------------------------
(* Properties.                                                              *)

Instructions ==
  [op : {"start", "stop", "free"}, arg : Timers]
  \union [op : {"flag"}, arg : {"DET_REC", "REG", "DEREG"}]
  \union [op : {"call"}, arg : {"recognition", "registration", "deregistration"}]
  \union [op : {"sleep"}, arg : {"on", "off"}]
  \union { Ins("check", "timeout"), Ins("process", "result"), Ins("halt", "STOP") }

\* Every variable has its type.
TypeOK ==
  /\ run_flag \in RunFlags /\ prevRunFlag \in RunFlags
  /\ blockingList \subseteq Blockers
  /\ timer_timeout \in BOOLEAN
  /\ result \in [state : Operations, outcome : Outcomes]
  /\ armed \subseteq Timers
  /\ stray \in [Timers -> Nat]
  /\ sleepMode \in BOOLEAN /\ asleep \in BOOLEAN /\ raced \in BOOLEAN
  /\ events \in 0..MaxEvents
  /\ todo \in Seq(Instructions)

\* Nothing but its timers ends an operation or a shown result when no face
\* comes (_oasis_start_registration, _oasis_start_deregistration,
\* _process_inference_result start them).  Wherever callbacks fall, and
\* whatever they stop, at rest such a timer runs or its expiry is noted.
\* (Up to the use of a freed timer, here and below: see raced.)
OperationCanEnd ==
  Idle /\ ~raced =>
          /\ run_flag = "REG" => "Reg" \in armed \/ timer_timeout
          /\ run_flag = "DEREG" => "Dereg" \in armed \/ timer_timeout
          /\ run_flag = "NUM" /\ ~asleep => "Result" \in armed

\* At rest the application is stopped exactly while somebody blocks it
\* (_oasis_stop, _oasis_start, s_blockingList): neither a callback of a timer
\* nor a start function brings it back to life.
StoppedIffBlocked ==
  Idle /\ ~raced => (run_flag = "STOP" <=> blockingList # {})

\* A registration, a deregistration and a shown result end: the application
\* returns to recognition, unless it is stopped or goes to low power
\* (_oasis_timer_result, _oasis_lite_check_timeout).
BackToRecognition ==
  run_flag \in {"REG", "DEREG", "NUM"}
    ~> (run_flag \in {"DET_REC", "STOP"} \/ asleep \/ raced)
=============================================================================
