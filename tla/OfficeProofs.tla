---------------------------- MODULE OfficeProofs ----------------------------
(* An orderly stop accounts for every email whose client waits, the rows of  *)
(* email_deliveries tell the truth, and the agency's signature names a file, *)
(* for every number of requests, bookings, emails and images.               *)
EXTENDS Office, TLAPS

USE DEF life, booked, mail, image, vars

-----------------------------------------------------------------------------
\* Types.

LEMMA IdleType ==
    Idle \in Request /\ Idle.pc = "idle" /\ Idle.path = Null /\ Idle.previous = Null /\ ~Idle.gone
  BY DEF Idle, Request, Place

LEMMA InitType == Init => TypeOK
  <1> SUFFICES ASSUME Init PROVE TypeOK
    OBVIOUS
  <1>1. req \in [Requests -> Request] /\ \A r \in Requests : req[r].pc = "idle"
    <2>1. req = [r \in Requests |-> Idle]
      BY DEF Init
    <2>2. QED
      BY <2>1, IdleType
  <1>2. \A r \in Requests : HasWhatItNeeds(req[r])
    BY <1>1 DEF HasWhatItNeeds
  <1>3. done \in 0..Len(Tasks)
    BY DEF Init, Tasks
  <1>4. status \in [Bookings -> {"open", "confirmed", "over"}]
    <2>1. status = [b \in Bookings |-> "open"]
      BY DEF Init
    <2>2. QED
      BY <2>1
  <1>5. contracts \in [Bookings -> {"none", "ready", "reminded"}]
    <2>1. contracts = [b \in Bookings |-> "none"]
      BY DEF Init
    <2>2. QED
      BY <2>1
  <1>6. /\ emails \in [Emails -> {"none", "pending", "sent", "failed"}]
        /\ fate \in [Emails -> {"not", "got", "unsure"}]
    <2>1. emails = [e \in Emails |-> "none"] /\ fate = [e \in Emails |-> "not"]
      BY DEF Init
    <2>2. QED
      BY <2>1
  <1>7. /\ process = "running" /\ agenda \in Agendas /\ reachable \subseteq Bookings
        /\ signature = Null /\ files = {} /\ holed = {} /\ cut = {}
    BY DEF Init
  <1>8. QED
    BY <1>1, <1>2, <1>3, <1>4, <1>5, <1>6, <1>7 DEF TypeOK

\* A request that goes on keeps the shape of a request.
LEMMA RequestType ==
  ASSUME TypeOK, NEW r \in Requests, NEW new \in Request, HasWhatItNeeds(new),
         req' = [req EXCEPT ![r] = new]
  PROVE  req' \in [Requests -> Request] /\ \A d \in Requests : HasWhatItNeeds(req'[d])
  BY DEF TypeOK

LEMMA GoesType ==
  ASSUME TypeOK, NEW r \in Requests, NEW pc \in Place, Goes(r, pc),
         pc = "enqueue" => req[r].pc \in {"upsert", "touch"},
         pc \in {"mark_sent", "mark_failed"} => req[r].pc \in {"send", "mark_sent"},
         pc \notin {"upsert", "touch", "send", "write", "delete"}
  PROVE  req' \in [Requests -> Request] /\ \A d \in Requests : HasWhatItNeeds(req'[d])
  <1> DEFINE new == [req[r] EXCEPT !.pc = pc]
  <1>1. new \in Request /\ HasWhatItNeeds(new)
    BY DEF TypeOK, Request, HasWhatItNeeds
  <1>2. req' = [req EXCEPT ![r] = new]
    BY DEF Goes
  <1> HIDE DEF new
  <1>3. QED
    BY <1>1, <1>2, RequestType

LEMMA EndsType ==
  ASSUME TypeOK, NEW r \in Requests, Ends(r)
  PROVE  req' \in [Requests -> Request] /\ \A d \in Requests : HasWhatItNeeds(req'[d])
  <1>1. HasWhatItNeeds(Idle)
    BY IdleType DEF HasWhatItNeeds
  <1>2. QED
    BY <1>1, IdleType, RequestType DEF Ends

LEMMA BeginType ==
  ASSUME TypeOK, NEW r \in Requests, Begin(r)
  PROVE  TypeOK'
  <1>1. CASE Save(r)
    <2>1. PICK p \in Paths :
            /\ req' = [req EXCEPT ![r] = [Idle EXCEPT !.pc = "write", !.path = p]]
            /\ holed' = IF \E d \in Requests : At(d, "write") /\ req[d].path = p
                        THEN holed \cup {p} ELSE holed \ {p}
            /\ files' = files \ {p}
      BY <1>1 DEF Save
    <2> DEFINE new == [Idle EXCEPT !.pc = "write", !.path = p]
    <2>2. new \in Request /\ HasWhatItNeeds(new)
      BY OfficeAssumption DEF Idle, Request, Place, HasWhatItNeeds
    <2>3. req' = [req EXCEPT ![r] = new]
      BY <2>1
    <2> HIDE DEF new
    <2>4. req' \in [Requests -> Request] /\ \A d \in Requests : HasWhatItNeeds(req'[d])
      BY <2>2, <2>3, RequestType
    <2>5. holed' \subseteq Paths /\ files' \subseteq Paths
      BY <2>1 DEF TypeOK
    <2>6. QED
      BY <1>1, <2>4, <2>5 DEF TypeOK, Save
  <1>2. CASE Remove(r)
    <2> DEFINE new == [Idle EXCEPT !.pc = "read"]
    <2>1. new \in Request /\ HasWhatItNeeds(new)
      BY DEF Idle, Request, Place, HasWhatItNeeds
    <2>2. req' = [req EXCEPT ![r] = new]
      BY <1>2 DEF Remove
    <2> HIDE DEF new
    <2>3. req' \in [Requests -> Request] /\ \A d \in Requests : HasWhatItNeeds(req'[d])
      BY <2>1, <2>2, RequestType
    <2>4. QED
      BY <1>2, <2>3 DEF TypeOK, Remove
  <1>3. CASE \E b \in Bookings : Upload(r, b) \/ Remind(r, b)
    <2>1. PICK b \in Bookings : Upload(r, b) \/ Remind(r, b)
      BY <1>3
    <2>2. PICK pc \in {"upsert", "touch"} : req' = [req EXCEPT ![r] = [Idle EXCEPT !.pc = pc, !.booking = b]]
      BY <2>1 DEF Upload, Remind
    <2> DEFINE new == [Idle EXCEPT !.pc = pc, !.booking = b]
    <2>3. new \in Request /\ HasWhatItNeeds(new)
      BY OfficeAssumption DEF Idle, Request, Place, HasWhatItNeeds
    <2>4. req' = [req EXCEPT ![r] = new]
      BY <2>2
    <2> HIDE DEF new
    <2>5. req' \in [Requests -> Request] /\ \A d \in Requests : HasWhatItNeeds(req'[d])
      BY <2>3, <2>4, RequestType
    <2>6. QED
      BY <2>1, <2>5 DEF TypeOK, Upload, Remind
  <1>4. QED
    BY <1>1, <1>2, <1>3 DEF Begin

LEMMA TellsType ==
  ASSUME TypeOK, NEW r \in Requests, Tells(r), req[r].pc \in {"upsert", "touch"}
  PROVE  req' \in [Requests -> Request] /\ \A d \in Requests : HasWhatItNeeds(req'[d])
  <1>1. CASE Goes(r, "enqueue")
    BY <1>1, GoesType DEF Place
  <1>2. QED
    BY <1>1, EndsType DEF Tells

\* The contract's and the email's steps.
LEMMA MailStepType ==
  ASSUME TypeOK, NEW r \in Requests,
         Upsert(r) \/ Touch(r) \/ Enqueue(r) \/ Send(r) \/ MarkEmailSent(r) \/ MarkEmailFailed(r)
  PROVE  TypeOK'
  <1>1. CASE Upsert(r)
    <2>1. req' \in [Requests -> Request] /\ \A d \in Requests : HasWhatItNeeds(req'[d])
      BY <1>1, TellsType DEF Upsert, Runs, At
    <2>2. contracts' \in [Bookings -> {"none", "ready", "reminded"}]
      BY <1>1 DEF TypeOK, Upsert
    <2>3. QED
      BY <1>1, <2>1, <2>2 DEF TypeOK, Upsert
  <1>2. CASE Touch(r)
    <2>1. req' \in [Requests -> Request] /\ \A d \in Requests : HasWhatItNeeds(req'[d])
      BY <1>2, TellsType, EndsType DEF Touch, Runs, At
    <2>2. contracts' \in [Bookings -> {"none", "ready", "reminded"}]
      BY <1>2 DEF TypeOK, Touch
    <2>3. QED
      BY <1>2, <2>1, <2>2 DEF TypeOK, Touch
  <1>3. CASE Enqueue(r)
    <2>1. PICK e \in Emails :
            /\ emails' = [emails EXCEPT ![e] = "pending"]
            /\ fate' = [fate EXCEPT ![e] = "not"]
            /\ cut' = cut \ {e}
            /\ req' = [req EXCEPT ![r] = [req[r] EXCEPT !.pc = "send", !.email = e]]
      BY <1>3 DEF Enqueue
    <2> DEFINE new == [req[r] EXCEPT !.pc = "send", !.email = e]
    <2>a. req[r] \in Request
      BY DEF TypeOK
    <2>b. new \in Request
      BY <2>a DEF Request, Place
    <2>c. new.pc = "send" /\ new.email = e
      BY <2>a DEF Request
    <2>2. new \in Request /\ HasWhatItNeeds(new)
      BY <2>b, <2>c, OfficeAssumption DEF HasWhatItNeeds
    <2>3. req' = [req EXCEPT ![r] = new]
      BY <2>1
    <2> HIDE DEF new
    <2>4. req' \in [Requests -> Request] /\ \A d \in Requests : HasWhatItNeeds(req'[d])
      BY <2>2, <2>3, RequestType
    <2>5. /\ emails' \in [Emails -> {"none", "pending", "sent", "failed"}]
          /\ fate' \in [Emails -> {"not", "got", "unsure"}] /\ cut' \subseteq Emails
      BY <2>1 DEF TypeOK
    <2>6. QED
      BY <1>3, <2>4, <2>5 DEF TypeOK, Enqueue
  <1>4. CASE Send(r)
    <2>1. PICK outcome \in {"got", "unsure", "not"}, pc \in {"mark_sent", "mark_failed"} :
            Delivery(r, outcome, pc)
      BY <1>4 DEF Send
    <2>2. Goes(r, pc) /\ req[r].pc = "send" /\ pc \in Place
      BY <1>4, <2>1 DEF Send, Delivery, At, Place
    <2>3. req' \in [Requests -> Request] /\ \A d \in Requests : HasWhatItNeeds(req'[d])
      BY <2>1, <2>2, GoesType
    <2>4. fate' \in [Emails -> {"not", "got", "unsure"}]
      BY <2>1 DEF TypeOK, Delivery
    <2>5. QED
      BY <1>4, <2>3, <2>4 DEF TypeOK, Send
  <1>5. CASE MarkEmailSent(r) \/ MarkEmailFailed(r)
    <2>1. PICK outcome \in {"sent", "failed"} : Marks(r, outcome)
      BY <1>5 DEF MarkEmailSent, MarkEmailFailed
    <2>2. req' \in [Requests -> Request] /\ \A d \in Requests : HasWhatItNeeds(req'[d])
      BY <2>1, EndsType DEF Marks
    <2>3. emails' \in [Emails -> {"none", "pending", "sent", "failed"}]
      BY <2>1 DEF TypeOK, Marks
    <2>4. QED
      BY <2>1, <2>2, <2>3 DEF TypeOK, Marks
  <1>6. QED
    BY <1>1, <1>2, <1>3, <1>4, <1>5

\* The signature's steps.
LEMMA ImageStepType ==
  ASSUME TypeOK, NEW r \in Requests,
         Write(r) \/ ReadPrevious(r) \/ DeletePrevious(r) \/ UpdateSignature(r)
  PROVE  TypeOK'
  <1>1. CASE Write(r)
    <2>1. req[r].path \in Paths /\ req[r].pc = "write"
      BY <1>1 DEF TypeOK, Request, HasWhatItNeeds, Write, At
    <2>2. req' \in [Requests -> Request] /\ \A d \in Requests : HasWhatItNeeds(req'[d])
      BY <1>1, <2>1, GoesType DEF Write, Place
    <2>3. QED
      BY <1>1, <2>1, <2>2 DEF TypeOK, Write
  <1>2. CASE ReadPrevious(r)
    <2> DEFINE new == [req[r] EXCEPT !.pc = IF signature = Null THEN "update" ELSE "delete",
                                     !.previous = signature]
    <2>a. req[r] \in Request /\ signature \in Paths \cup {Null}
      BY DEF TypeOK
    <2>b. new \in Request
      BY <2>a DEF Request, Place
    <2>c. new.pc \in {"update", "delete"} /\ (new.pc = "delete" => new.previous # Null)
      BY <2>a DEF Request
    <2>1. new \in Request /\ HasWhatItNeeds(new)
      BY <2>b, <2>c DEF HasWhatItNeeds
    <2>2. req' = [req EXCEPT ![r] = new]
      BY <1>2 DEF ReadPrevious
    <2> HIDE DEF new
    <2>3. req' \in [Requests -> Request] /\ \A d \in Requests : HasWhatItNeeds(req'[d])
      BY <2>1, <2>2, RequestType
    <2>4. QED
      BY <1>2, <2>3 DEF TypeOK, ReadPrevious
  <1>3. CASE DeletePrevious(r)
    <2>1. req' \in [Requests -> Request] /\ \A d \in Requests : HasWhatItNeeds(req'[d])
      BY <1>3, GoesType DEF DeletePrevious, Place
    <2>2. files' \subseteq Paths
      BY <1>3 DEF TypeOK, DeletePrevious
    <2>3. QED
      BY <1>3, <2>1, <2>2 DEF TypeOK, DeletePrevious
  <1>4. CASE UpdateSignature(r)
    <2>1. req' \in [Requests -> Request] /\ \A d \in Requests : HasWhatItNeeds(req'[d])
      BY <1>4, EndsType DEF UpdateSignature
    <2>2. signature' \in Paths \cup {Null}
      BY <1>4 DEF TypeOK, UpdateSignature, Request
    <2>3. QED
      BY <1>4, <2>1, <2>2 DEF TypeOK, UpdateSignature
  <1>5. QED
    BY <1>1, <1>2, <1>3, <1>4

LEMMA FailsType ==
  ASSUME TypeOK, NEW r \in Requests, Fails(r)
  PROVE  TypeOK'
  <1>1. req' \in [Requests -> Request] /\ \A d \in Requests : HasWhatItNeeds(req'[d])
    <2>1. CASE At(r, "mark_sent")
      BY <2>1, GoesType DEF Fails, At, Place
    <2>2. CASE ~At(r, "mark_sent")
      BY <2>2, EndsType DEF Fails
    <2>3. QED
      BY <2>1, <2>2
  <1>2. cut' \subseteq Emails
    BY DEF Fails, TypeOK, Marking, Request, HasWhatItNeeds
  <1>3. holed' \subseteq Paths
    BY DEF Fails, TypeOK, Request
  <1>4. QED
    BY <1>1, <1>2, <1>3 DEF TypeOK, Fails

\* A client that leaves changes nothing but that.
LEMMA LeavesOne ==
  ASSUME TypeOK, NEW r \in Requests, ClientLeaves(r)
  PROVE  /\ req[r] \in Request /\ req'[r] \in Request /\ req'[r].gone
         /\ req' = [req EXCEPT ![r] = req'[r]]
         /\ \A d \in Requests : d # r => req'[d] = req[d]
         /\ \A d \in Requests :
              /\ req'[d].pc = req[d].pc /\ req'[d].booking = req[d].booking
              /\ req'[d].email = req[d].email /\ req'[d].path = req[d].path
              /\ req'[d].previous = req[d].previous
         /\ ~At(r, "idle") /\ UNCHANGED <<life, booked, mail, image>>
  <1> DEFINE new == [req[r] EXCEPT !.gone = TRUE]
  <1>1. req \in [Requests -> Request] /\ req[r] \in Request
    BY DEF TypeOK
  <1>2. /\ new \in Request /\ new.gone
        /\ new.pc = req[r].pc /\ new.booking = req[r].booking /\ new.email = req[r].email
        /\ new.path = req[r].path /\ new.previous = req[r].previous
    BY <1>1 DEF Request
  <1>3. req' = [req EXCEPT ![r] = new] /\ ~At(r, "idle") /\ UNCHANGED <<life, booked, mail, image>>
    BY DEF ClientLeaves
  <1> HIDE DEF new
  <1>4. req'[r] = new /\ \A d \in Requests : d # r => req'[d] = req[d]
    BY <1>1, <1>3
  <1>5. QED
    BY <1>1, <1>2, <1>3, <1>4

LEMMA LeavesType ==
  ASSUME TypeOK, NEW r \in Requests, ClientLeaves(r)
  PROVE  TypeOK'
  <1>1. HasWhatItNeeds(req'[r])
    BY LeavesOne DEF TypeOK, HasWhatItNeeds
  <1>2. req' \in [Requests -> Request] /\ \A d \in Requests : HasWhatItNeeds(req'[d])
    BY <1>1, LeavesOne, RequestType
  <1>3. QED
    BY <1>2, LeavesOne DEF TypeOK

LEMMA NextType == TypeOK /\ [Next]_vars => TypeOK'
  <1> SUFFICES ASSUME TypeOK, [Next]_vars PROVE TypeOK'
    OBVIOUS
  <1>1. CASE \E r \in Requests : Begin(r) \/ Step(r) \/ Fails(r) \/ ClientLeaves(r)
    BY <1>1, BeginType, MailStepType, ImageStepType, FailsType, LeavesType DEF Step
  <1>2. CASE Signal \/ Restart
    BY <1>2 DEF TypeOK, Signal, Restart
  <1>3. CASE RunTask
    <2>1. done' \in 0..Len(Tasks)
      BY <1>3 DEF TypeOK, RunTask, Tasks
    <2>2. QED
      BY <1>3, <2>1 DEF TypeOK, RunTask
  <1>4. CASE Exit \/ Kill
    <2>1. req' = [r \in Requests |-> Idle] /\ done' = 0
      BY <1>4 DEF Exit, Kill, EndsUnder
    <2>2. req' \in [Requests -> Request] /\ \A d \in Requests : HasWhatItNeeds(req'[d])
      BY <2>1, IdleType DEF HasWhatItNeeds
    <2>3. done' \in 0..Len(Tasks)
      BY <2>1 DEF Tasks
    <2>4. cut' \subseteq Emails /\ holed' \subseteq Paths
      BY <1>4 DEF TypeOK, Exit, Kill, EndsUnder
    <2>5. QED
      BY <1>4, <2>2, <2>3, <2>4 DEF TypeOK, Exit, Kill, EndsUnder
  <1>5. CASE \E b \in Bookings : Confirm(b) \/ Close(b) \/ Day(b)
    BY <1>5 DEF TypeOK, Confirm, Close, Day
  <1>6. CASE UNCHANGED vars
    BY <1>6 DEF TypeOK
  <1>7. QED
    BY <1>1, <1>2, <1>3, <1>4, <1>5, <1>6 DEF Next

\* Every statement, every failure and every end of the process keeps the state
\* in its types, and a request has the booking, email or path it needs.
THEOREM TypeCorrect == Spec => []TypeOK
  BY InitType, NextType, PTL DEF Spec

-----------------------------------------------------------------------------
\* The server is closed first: while the rest is closed nobody waits for a
\* handler that goes on.

Quiet ==
    /\ done > 0 => process = "stopping"
    /\ done > 0 => \A r \in Requests : At(r, "idle") \/ req[r].gone
    /\ process = "down" => \A r \in Requests : At(r, "idle")

\* What Goes and Ends make of the requests.
LEMMA GoesOn ==
  ASSUME TypeOK, NEW r \in Requests, NEW pc, Goes(r, pc)
  PROVE  /\ \A d \in Requests : d # r => req'[d] = req[d]
         /\ req'[r].pc = pc /\ req'[r].email = req[r].email
         /\ req'[r].path = req[r].path /\ req'[r].previous = req[r].previous
         /\ req'[r].gone = req[r].gone
  <1>1. req \in [Requests -> Request]
    BY DEF TypeOK
  <1>2. req' = [req EXCEPT ![r] = [req[r] EXCEPT !.pc = pc]]
    BY DEF Goes
  <1>3. req'[r] = [req[r] EXCEPT !.pc = pc]
    BY <1>1, <1>2
  <1>4. QED
    BY <1>1, <1>2, <1>3 DEF Request

LEMMA EndsNow ==
  ASSUME TypeOK, NEW r \in Requests, Ends(r)
  PROVE  /\ \A d \in Requests : d # r => req'[d] = req[d]
         /\ req'[r].pc = "idle" /\ req'[r].path = Null /\ req'[r].previous = Null
  BY IdleType DEF TypeOK, Ends

\* A step is one of its request, and nothing brings a client back.
LEMMA StepOne ==
  ASSUME TypeOK, NEW r \in Requests, Step(r) \/ Fails(r)
  PROVE  /\ \A d \in Requests : d # r => req'[d] = req[d]
         /\ At(r, "idle")' \/ req'[r].gone = req[r].gone
  <1>1. CASE Enqueue(r)
    <2>1. PICK e \in Emails : req' = [req EXCEPT ![r] = [req[r] EXCEPT !.pc = "send", !.email = e]]
      BY <1>1 DEF Enqueue
    <2>2. req \in [Requests -> Request]
      BY DEF TypeOK
    <2>3. req'[r] = [req[r] EXCEPT !.pc = "send", !.email = e]
      BY <2>1, <2>2
    <2>4. req'[r].gone = req[r].gone
      BY <2>2, <2>3 DEF Request
    <2>5. QED
      BY <2>1, <2>2, <2>4
  <1>2. CASE ReadPrevious(r)
    <2> DEFINE new == [req[r] EXCEPT !.pc = IF signature = Null THEN "update" ELSE "delete",
                                     !.previous = signature]
    <2>1. req \in [Requests -> Request]
      BY DEF TypeOK
    <2>2. new.gone = req[r].gone
      BY <2>1 DEF Request
    <2>3. req' = [req EXCEPT ![r] = new]
      BY <1>2 DEF ReadPrevious
    <2> HIDE DEF new
    <2>4. QED
      BY <2>1, <2>2, <2>3
  <1>3. CASE Ends(r)
    BY <1>3, EndsNow DEF At
  <1>4. CASE \E pc \in Place : Goes(r, pc)
    BY <1>4, GoesOn
  <1>5. QED
    BY <1>1, <1>2, <1>3, <1>4 DEF Step, Upsert, Touch, Tells, Send, Delivery, MarkEmailSent,
       MarkEmailFailed, Marks, Write, DeletePrevious, UpdateSignature, Fails, Place

LEMMA NextQuiet == TypeOK /\ Quiet /\ [Next]_vars => Quiet'
  <1> SUFFICES ASSUME TypeOK, Quiet, [Next]_vars PROVE Quiet'
    OBVIOUS
  <1>a. done \in Nat /\ Len(Tasks) = 6 /\ Tasks[1] = "http-server"
    BY DEF TypeOK, Tasks, Registered
  <1>1. CASE \E r \in Requests : Begin(r) \/ Step(r) \/ Fails(r) \/ ClientLeaves(r)
    <2>1. PICK r \in Requests : Begin(r) \/ Step(r) \/ Fails(r) \/ ClientLeaves(r)
      BY <1>1
    <2>2. UNCHANGED <<process, done>>
      BY <2>1 DEF Begin, Save, Remove, Upload, Remind, Step, Upsert, Touch, Enqueue, Send,
                  MarkEmailSent, MarkEmailFailed, Marks, Write, ReadPrevious, DeletePrevious,
                  UpdateSignature, Fails, ClientLeaves
    <2>3. CASE Begin(r)
      <3>1. process = "running"
        BY <2>3 DEF Begin, Save, Remove, Upload, Remind, Free
      <3>2. QED
        BY <2>2, <3>1 DEF Quiet
    <2>4. CASE Step(r) \/ Fails(r) \/ ClientLeaves(r)
      <3>1. ~At(r, "idle")
        BY <2>4 DEF Step, Upsert, Touch, Enqueue, Send, MarkEmailSent, MarkEmailFailed, Runs, At,
                    Write, ReadPrevious, DeletePrevious, UpdateSignature, Fails, ClientLeaves
      <3>2. process # "down"
        BY <3>1 DEF Quiet
      <3>3. CASE done > 0
        <4>1. process = "stopping" /\ req[r].gone
          BY <3>1, <3>3 DEF Quiet
        <4>2. /\ \A d \in Requests : d # r => req'[d] = req[d]
              /\ At(r, "idle")' \/ req'[r].gone
          BY <2>4, <4>1, StepOne, LeavesOne
        <4>3. QED
          BY <2>2, <3>2, <3>3, <4>1, <4>2 DEF Quiet, At
      <3>4. CASE ~(done > 0)
        BY <2>2, <3>2, <3>4 DEF Quiet
      <3>5. QED
        BY <3>3, <3>4
    <2>5. QED
      BY <2>1, <2>3, <2>4
  <1>2. CASE Signal \/ Restart
    BY <1>2 DEF Signal, Restart, Quiet, At
  <1>3. CASE RunTask
    <2>1. \A r \in Requests : At(r, "idle") \/ req[r].gone
      <3>1. CASE done = 0
        BY <1>3, <1>a, <3>1 DEF RunTask
      <3>2. CASE done > 0
        BY <3>2 DEF Quiet
      <3>3. QED
        BY <1>a, <3>1, <3>2
    <2>2. QED
      BY <1>3, <2>1 DEF RunTask, Quiet, At
  <1>4. CASE Exit \/ Kill
    BY <1>4, IdleType DEF Exit, Kill, EndsUnder, Quiet, At
  <1>5. CASE \E b \in Bookings : Confirm(b) \/ Close(b) \/ Day(b)
    BY <1>5 DEF Confirm, Close, Day, Quiet, At
  <1>6. CASE UNCHANGED vars
    BY <1>6 DEF Quiet, At
  <1>7. QED
    BY <1>1, <1>2, <1>3, <1>4, <1>5, <1>6 DEF Next

LEMMA QuietAlways == Spec => []Quiet
  <1>1. Init => Quiet
    BY IdleType DEF Init, Quiet
  <1>2. QED
    BY <1>1, NextQuiet, TypeCorrect, PTL DEF Spec

\* While somebody waits for a request the pool is open.
LEMMA WaitedForRuns ==
  ASSUME TypeOK, Quiet, NEW r \in Requests, ~At(r, "idle")
  PROVE  Excused(r)
  <1>1. CASE done = 0
    <2>1. 6 \in (done + 1)..Len(Tasks) /\ Tasks[6] = "database-pool"
      BY <1>1 DEF Tasks, Registered
    <2>2. QED
      BY <2>1 DEF PoolOpen, Excused
  <1>2. CASE done # 0
    <2>1. done > 0
      BY <1>2 DEF TypeOK
    <2>2. QED
      BY <2>1 DEF Quiet, Excused
  <1>3. QED
    BY <1>1, <1>2

-----------------------------------------------------------------------------
\* The emails.

Works(r) == req[r].pc \in {"send", "mark_sent", "mark_failed"}

MailInvariant ==
    /\ \A r, d \in Requests : Works(r) /\ Works(d) /\ req[r].email = req[d].email => r = d
    /\ \A r \in Requests : Works(r) => emails[req[r].email] = "pending"
    /\ \A r \in Requests : At(r, "mark_sent") => fate[req[r].email] = "got"
    /\ \A r \in Requests :
        At(r, "mark_failed") => fate[req[r].email] # "got" \/ req[r].email \in cut
    /\ PendingHasCause
    /\ FateKnown

\* A step that is not about emails.
MailAside ==
    /\ UNCHANGED <<emails, fate, cut>>
    /\ \A r \in Requests :
        \/ req'[r].pc = req[r].pc /\ req'[r].email = req[r].email
        \/ ~Works(r) /\ ~Works(r)'

LEMMA MailAsideKeeps == MailInvariant /\ MailAside => MailInvariant'
  <1> SUFFICES ASSUME MailInvariant, MailAside PROVE MailInvariant'
    OBVIOUS
  <1>1. UNCHANGED <<emails, fate, cut>>
    BY DEF MailAside
  <1>2. \A r \in Requests : Works(r)' <=> Works(r)
    BY DEF MailAside, Works
  <1>3. \A r \in Requests : Works(r) => req'[r] .pc = req[r].pc /\ req'[r].email = req[r].email
    BY DEF MailAside, Works
  <1>4. \A e \in Emails : InHand(e)' <=> InHand(e)
    BY <1>2, <1>3 DEF Handles, InHand, Works
  <1>5. PendingHasCause' /\ FateKnown'
    BY <1>1, <1>4 DEF MailInvariant, PendingHasCause, FateKnown
  <1>6. \A r \in Requests : Works(r)' => emails'[req'[r].email] = "pending"
    BY <1>1, <1>2, <1>3 DEF MailInvariant
  <1>7. \A r, d \in Requests : Works(r)' /\ Works(d)' /\ req'[r].email = req'[d].email => r = d
    BY <1>2, <1>3 DEF MailInvariant
  <1>8. \A r \in Requests : (At(r, "mark_sent") \/ At(r, "mark_failed"))' => Works(r)
    BY <1>2 DEF At, Works
  <1>9. /\ \A r \in Requests : At(r, "mark_sent")' => fate'[req'[r].email] = "got"
        /\ \A r \in Requests :
            At(r, "mark_failed")' => fate'[req'[r].email] # "got" \/ req'[r].email \in cut'
    BY <1>1, <1>3, <1>8 DEF MailInvariant, At
  <1>10. QED
    BY <1>5, <1>6, <1>7, <1>9 DEF MailInvariant

LEMMA EnqueueMail ==
  ASSUME TypeOK, MailInvariant, NEW r \in Requests, Enqueue(r)
  PROVE  MailInvariant'
  <1>1. PICK e \in Emails :
          /\ ~InHand(e)
          /\ emails' = [emails EXCEPT ![e] = "pending"]
          /\ fate' = [fate EXCEPT ![e] = "not"]
          /\ cut' = cut \ {e}
          /\ req' = [req EXCEPT ![r] = [req[r] EXCEPT !.pc = "send", !.email = e]]
    BY DEF Enqueue
  <1>2. req'[r].pc = "send" /\ req'[r].email = e /\ ~Works(r)
    <2>1. req \in [Requests -> Request]
      BY DEF TypeOK
    <2>2. req'[r] = [req[r] EXCEPT !.pc = "send", !.email = e]
      BY <1>1, <2>1
    <2>3. req'[r].pc = "send" /\ req'[r].email = e
      BY <2>1, <2>2 DEF Request
    <2>4. ~Works(r)
      BY DEF Enqueue, Runs, At, Works
    <2>5. QED
      BY <2>3, <2>4
  <1>3. \A d \in Requests : d # r => req'[d] = req[d]
    BY <1>1 DEF TypeOK
  <1>4. \A d \in Requests : d # r /\ Works(d) => req[d].email \in Emails \ {e}
    BY <1>1, OfficeAssumption DEF Handles, InHand, Works, TypeOK, HasWhatItNeeds, Request
  <1>5. emails'[e] = "pending" /\ fate'[e] = "not"
        /\ \A f \in Emails \ {e} : emails'[f] = emails[f] /\ fate'[f] = fate[f] /\ (f \in cut' <=> f \in cut)
    BY <1>1 DEF TypeOK
  <1>6. \A f \in Emails \ {e} : InHand(f) => InHand(f)'
    BY <1>2, <1>3 DEF Handles, InHand, Works
  <1>7. InHand(e)'
    BY <1>2 DEF Handles, InHand
  <1>8. PendingHasCause' /\ FateKnown'
    BY <1>5, <1>6, <1>7 DEF MailInvariant, PendingHasCause, FateKnown
  <1>9. \A d \in Requests : d # r /\ Works(d)' => Works(d) /\ req'[d].email \in Emails \ {e}
    BY <1>3, <1>4 DEF Works
  <1>10. \A d, c \in Requests : Works(d)' /\ Works(c)' /\ req'[d].email = req'[c].email => d = c
    BY <1>2, <1>3, <1>9 DEF MailInvariant
  <1>11. \A d \in Requests : Works(d)' => emails'[req'[d].email] = "pending"
    BY <1>2, <1>3, <1>5, <1>9 DEF MailInvariant
  <1>12. /\ \A d \in Requests : At(d, "mark_sent")' => fate'[req'[d].email] = "got"
         /\ \A d \in Requests :
             At(d, "mark_failed")' => fate'[req'[d].email] # "got" \/ req'[d].email \in cut'
    <2>1. \A d \in Requests : (At(d, "mark_sent") \/ At(d, "mark_failed"))' => d # r /\ Works(d)'
      BY <1>2 DEF At, Works
    <2>2. QED
      BY <1>3, <1>5, <1>9, <2>1 DEF MailInvariant, At
  <1>13. QED
    BY <1>8, <1>10, <1>11, <1>12 DEF MailInvariant

\* The email of a working request is changed, the others are as they were.
LEMMA OneEmail ==
  ASSUME TypeOK, MailInvariant, NEW r \in Requests, Works(r),
         NEW e, e = req[r].email,
         \A d \in Requests : d # r => req'[d] = req[d],
         \A f \in Emails \ {e} :
            emails'[f] = emails[f] /\ fate'[f] = fate[f] /\ (f \in cut' <=> f \in cut),
         emails'[e] = "pending" => InHand(e)' \/ e \in cut',
         emails'[e] = "sent" => fate'[e] = "got",
         emails'[e] = "failed" => fate'[e] # "got" \/ e \in cut',
         Works(r)' => req'[r].email = e /\ emails'[e] = "pending",
         At(r, "mark_sent")' => fate'[e] = "got",
         At(r, "mark_failed")' => fate'[e] # "got" \/ e \in cut'
  PROVE  MailInvariant'
  <1>1. e \in Emails
    BY OfficeAssumption DEF Works, TypeOK, HasWhatItNeeds, Request
  <1>2. \A d \in Requests : d # r /\ Works(d) => req[d].email \in Emails \ {e}
    BY OfficeAssumption DEF MailInvariant, Works, TypeOK, HasWhatItNeeds, Request
  <1>3. \A d \in Requests : d # r /\ Works(d)' => Works(d) /\ req'[d].email \in Emails \ {e}
    BY <1>2 DEF Works
  <1>4. \A f \in Emails \ {e} : InHand(f) => InHand(f)'
    <2> SUFFICES ASSUME NEW f \in Emails \ {e}, InHand(f) PROVE InHand(f)'
      OBVIOUS
    <2>1. PICK d \in Requests : req[d].email = f /\ Works(d)
      BY DEF Handles, InHand, Works
    <2>2. d # r
      BY <2>1
    <2>3. QED
      BY <2>1, <2>2 DEF Handles, InHand, Works
  <1>5. PendingHasCause' /\ FateKnown'
    BY <1>1, <1>4 DEF MailInvariant, PendingHasCause, FateKnown
  <1>6. \A d, c \in Requests : Works(d)' /\ Works(c)' /\ req'[d].email = req'[c].email => d = c
    BY <1>3 DEF MailInvariant
  <1>7. \A d \in Requests : Works(d)' => emails'[req'[d].email] = "pending"
    BY <1>3 DEF MailInvariant
  <1>8. \A d \in Requests : (At(d, "mark_sent") \/ At(d, "mark_failed"))' => Works(d)'
    BY DEF At, Works
  <1>9. /\ \A d \in Requests : At(d, "mark_sent")' => fate'[req'[d].email] = "got"
        /\ \A d \in Requests :
            At(d, "mark_failed")' => fate'[req'[d].email] # "got" \/ req'[d].email \in cut'
    <2>1. \A d \in Requests : d # r =>
            /\ At(d, "mark_sent")' => fate'[req'[d].email] = "got"
            /\ At(d, "mark_failed")' => fate'[req'[d].email] # "got" \/ req'[d].email \in cut'
      BY <1>3, <1>8 DEF MailInvariant, At
    <2>2. QED
      BY <1>8, <2>1
  <1>10. QED
    BY <1>5, <1>6, <1>7, <1>9 DEF MailInvariant

LEMMA SendMail ==
  ASSUME TypeOK, MailInvariant, NEW r \in Requests, Send(r)
  PROVE  MailInvariant'
  <1> DEFINE e == req[r].email
  <1>1. Works(r) /\ e \in Emails /\ emails[e] = "pending"
    BY OfficeAssumption DEF MailInvariant, Send, At, Works, TypeOK, HasWhatItNeeds, Request
  <1>2. UNCHANGED <<emails, cut>>
    BY DEF Send
  <1>3. PICK outcome, pc :
          /\ Delivery(r, outcome, pc)
          /\ \/ outcome = "got" /\ pc = "mark_sent"
             \/ outcome \in {"unsure", "not"} /\ pc = "mark_failed"
    BY DEF Send
  <1>4. /\ \A d \in Requests : d # r => req'[d] = req[d]
        /\ req'[r].pc = pc /\ req'[r].email = e
    BY <1>3, GoesOn DEF Delivery
  <1>5. fate'[e] = outcome /\ \A f \in Emails \ {e} : fate'[f] = fate[f]
    BY <1>1, <1>3 DEF Delivery, TypeOK
  <1>6. InHand(e)'
    BY <1>3, <1>4 DEF Handles, InHand
  <1> HIDE DEF e
  <1>7. At(r, "mark_sent")' => fate'[e] = "got"
    BY <1>3, <1>4, <1>5 DEF At
  <1>8. At(r, "mark_failed")' => fate'[e] # "got" \/ e \in cut'
    BY <1>3, <1>4, <1>5 DEF At
  <1>9. emails'[e] = "pending"
    BY <1>1, <1>2
  <1>10. QED
    BY <1>1, <1>2, <1>4, <1>5, <1>6, <1>7, <1>8, <1>9, OneEmail DEF e

LEMMA MarksMail ==
  ASSUME TypeOK, MailInvariant, NEW r \in Requests, MarkEmailSent(r) \/ MarkEmailFailed(r)
  PROVE  MailInvariant'
  <1> DEFINE e == req[r].email
  <1>1. Works(r) /\ e \in Emails
    BY OfficeAssumption DEF MarkEmailSent, MarkEmailFailed, Runs, At, Works, TypeOK,
                            HasWhatItNeeds, Request
  <1>2. PICK outcome :
          /\ Marks(r, outcome)
          /\ \/ outcome = "sent" /\ fate[e] = "got"
             \/ outcome = "failed" /\ (fate[e] # "got" \/ e \in cut)
    BY DEF MarkEmailSent, MarkEmailFailed, Runs, MailInvariant
  <1>3. \A d \in Requests : d # r => req'[d] = req[d]
    BY <1>2, EndsNow DEF Marks
  <1>4. req'[r].pc = "idle"
    BY <1>2, EndsNow DEF Marks
  <1>5. emails'[e] = outcome /\ \A f \in Emails \ {e} : emails'[f] = emails[f]
    BY <1>1, <1>2 DEF Marks, TypeOK
  <1>6. UNCHANGED <<fate, cut>>
    BY <1>2 DEF Marks
  <1>7. ~Works(r)' /\ ~At(r, "mark_sent")' /\ ~At(r, "mark_failed")'
    BY <1>4 DEF Works, At
  <1> HIDE DEF e
  <1>8. QED
    BY <1>1, <1>2, <1>3, <1>5, <1>6, <1>7, OneEmail DEF e

LEMMA FailsMail ==
  ASSUME TypeOK, Quiet, MailInvariant, NEW r \in Requests, Fails(r)
  PROVE  MailInvariant'
  <1>a. UNCHANGED <<emails, fate>>
    BY DEF Fails
  <1>1. CASE req[r].pc \in Marking
    <2> DEFINE e == req[r].email
    <2>1. Works(r) /\ e \in Emails /\ emails[e] = "pending"
      BY <1>1, OfficeAssumption DEF MailInvariant, Marking, Works, TypeOK, HasWhatItNeeds, Request
    <2>2. cut' = cut \cup {e}
      BY <1>1, WaitedForRuns DEF Fails, Marking, At
    <2>3. \A d \in Requests : d # r => req'[d] = req[d]
      BY GoesOn, EndsNow DEF Fails
    <2>4. Works(r)' => req'[r].email = e /\ ~At(r, "mark_sent")'
      BY GoesOn, EndsNow DEF Fails, Works, At
    <2>5. At(r, "mark_sent")' => Works(r)'
      BY DEF At, Works
    <2>6. emails'[e] = "pending" /\ e \in cut'
      BY <1>a, <2>1, <2>2
    <2>7. \A f \in Emails \ {e} : (f \in cut' <=> f \in cut) /\ emails'[f] = emails[f] /\ fate'[f] = fate[f]
      BY <1>a, <2>2
    <2> HIDE DEF e
    <2>8. QED
      BY <2>1, <2>3, <2>4, <2>5, <2>6, <2>7, OneEmail DEF e
  <1>2. CASE req[r].pc \notin Marking
    <2>1. ~Works(r) /\ Ends(r) /\ UNCHANGED cut
      BY <1>2 DEF Fails, Marking, Works, At
    <2>2. ~Works(r)' /\ \A d \in Requests : d # r => req'[d] = req[d]
      BY <2>1, EndsNow DEF Works
    <2>3. MailAside
      BY <1>a, <2>1, <2>2 DEF MailAside
    <2>4. QED
      BY <2>3, MailAsideKeeps
  <1>3. QED
    BY <1>1, <1>2

\* A request that goes from one place outside the email's to another.
LEMMA AsideOne ==
  ASSUME TypeOK, MailInvariant, NEW r \in Requests, NEW new,
         UNCHANGED <<emails, fate, cut>>, ~Works(r),
         req' = [req EXCEPT ![r] = new],
         new.pc \notin {"send", "mark_sent", "mark_failed"}
  PROVE  MailInvariant'
  <1>1. req'[r] = new /\ \A d \in Requests : d # r => req'[d] = req[d]
    BY DEF TypeOK
  <1>2. ~Works(r)'
    BY <1>1 DEF Works
  <1>3. MailAside
    BY <1>1, <1>2 DEF MailAside
  <1>4. QED
    BY <1>3, MailAsideKeeps

LEMMA RequestMail ==
  ASSUME TypeOK, Quiet, MailInvariant, NEW r \in Requests, Begin(r) \/ Step(r) \/ Fails(r)
  PROVE  MailInvariant'
  <1>1. CASE Begin(r)
    <2>1. ~Works(r) /\ UNCHANGED <<emails, fate, cut>>
      BY <1>1 DEF Begin, Save, Remove, Upload, Remind, Free, At, Works
    <2>2. CASE Save(r)
      <3>1. PICK p \in Paths : req' = [req EXCEPT ![r] = [Idle EXCEPT !.pc = "write", !.path = p]]
        BY <2>2 DEF Save
      <3>2. [Idle EXCEPT !.pc = "write", !.path = p].pc = "write"
        BY DEF Idle
      <3>3. QED
        BY <2>1, <3>1, <3>2, AsideOne
    <2>3. CASE Remove(r)
      <3>1. [Idle EXCEPT !.pc = "read"].pc = "read"
        BY DEF Idle
      <3>2. QED
        BY <2>1, <2>3, <3>1, AsideOne DEF Remove
    <2>4. CASE \E b \in Bookings : Upload(r, b) \/ Remind(r, b)
      <3>1. PICK b \in Bookings, pc \in {"upsert", "touch"} :
              req' = [req EXCEPT ![r] = [Idle EXCEPT !.pc = pc, !.booking = b]]
        BY <2>4 DEF Upload, Remind
      <3>2. [Idle EXCEPT !.pc = pc, !.booking = b].pc = pc
        BY DEF Idle
      <3>3. QED
        BY <2>1, <3>1, <3>2, AsideOne
    <2>5. QED
      BY <1>1, <2>2, <2>3, <2>4 DEF Begin
  <1>2. CASE Upsert(r) \/ Touch(r) \/ Write(r) \/ ReadPrevious(r) \/ DeletePrevious(r) \/ UpdateSignature(r)
    <2>1. ~Works(r) /\ UNCHANGED <<emails, fate, cut>>
      BY <1>2 DEF Upsert, Touch, Write, ReadPrevious, DeletePrevious, UpdateSignature, Runs, At, Works
    <2>2. CASE ReadPrevious(r)
      <3> DEFINE new == [req[r] EXCEPT !.pc = IF signature = Null THEN "update" ELSE "delete",
                                       !.previous = signature]
      <3>1. req[r] \in Request
        BY DEF TypeOK
      <3>2. new.pc \in {"update", "delete"}
        BY <3>1 DEF Request
      <3>3. req' = [req EXCEPT ![r] = new]
        BY <2>2 DEF ReadPrevious
      <3> HIDE DEF new
      <3>4. QED
        BY <2>1, <3>2, <3>3, AsideOne
    <2>3. CASE ~ReadPrevious(r)
      <3>1. Ends(r) \/ \E pc \in {"enqueue", "read", "update"} : Goes(r, pc)
        BY <1>2, <2>3 DEF Upsert, Touch, Tells, Write, DeletePrevious, UpdateSignature
      <3>2. ~Works(r)' /\ \A d \in Requests : d # r => req'[d] = req[d]
        BY <3>1, GoesOn, EndsNow DEF Works
      <3>3. MailAside
        BY <2>1, <3>2 DEF MailAside
      <3>4. QED
        BY <3>3, MailAsideKeeps
    <2>4. QED
      BY <2>2, <2>3
  <1>3. CASE Enqueue(r)
    BY <1>3, EnqueueMail
  <1>4. CASE Send(r)
    BY <1>4, SendMail
  <1>5. CASE MarkEmailSent(r) \/ MarkEmailFailed(r)
    BY <1>5, MarksMail
  <1>6. CASE Fails(r)
    BY <1>6, FailsMail
  <1>7. QED
    BY <1>1, <1>2, <1>3, <1>4, <1>5, <1>6 DEF Step

\* The process ends: what was in hand has its cause.
LEMMA EndsMail ==
  ASSUME TypeOK, MailInvariant, NEW R, EndsUnder(R),
         \A r \in Requests : At(r, "idle") \/ r \in R
  PROVE  MailInvariant'
  <1>1. \A r \in Requests : req'[r].pc = "idle"
    BY IdleType DEF EndsUnder
  <1>2. UNCHANGED <<emails, fate>> /\ cut \subseteq cut'
    BY DEF EndsUnder
  <1>3. \A e \in Emails : InHand(e) => e \in cut'
    BY DEF EndsUnder, InHand, Handles, At
  <1>4. PendingHasCause' /\ FateKnown'
    BY <1>2, <1>3 DEF MailInvariant, PendingHasCause, FateKnown
  <1>5. QED
    BY <1>1, <1>4 DEF MailInvariant, Works, At

LEMMA NextMail == TypeOK /\ Quiet /\ MailInvariant /\ [Next]_vars => MailInvariant'
  <1> SUFFICES ASSUME TypeOK, Quiet, MailInvariant, [Next]_vars PROVE MailInvariant'
    OBVIOUS
  <1>1. CASE \E r \in Requests : Begin(r) \/ Step(r) \/ Fails(r) \/ ClientLeaves(r)
    <2>1. PICK r \in Requests : Begin(r) \/ Step(r) \/ Fails(r) \/ ClientLeaves(r)
      BY <1>1
    <2>2. CASE ClientLeaves(r)
      <3>1. MailAside
        BY <2>2, LeavesOne DEF MailAside
      <3>2. QED
        BY <3>1, MailAsideKeeps
    <2>3. QED
      BY <2>1, <2>2, RequestMail
  <1>2. CASE Kill
    <2>1. EndsUnder(Requests)
      BY <1>2 DEF Kill
    <2>2. QED
      BY <2>1, EndsMail
  <1>3. CASE Exit
    <2>1. EndsUnder({r \in Requests : req[r].gone})
      BY <1>3 DEF Exit
    <2>2. \A r \in Requests : At(r, "idle") \/ req[r].gone
      BY <1>3 DEF Exit, Quiet, Tasks
    <2>3. QED
      BY <2>1, <2>2, EndsMail
  <1>4. CASE Signal \/ RunTask \/ Restart \/ (\E b \in Bookings : Confirm(b) \/ Close(b) \/ Day(b)) \/ UNCHANGED vars
    <2>1. MailAside
      BY <1>4 DEF Signal, RunTask, Restart, Confirm, Close, Day, MailAside
    <2>2. QED
      BY <2>1, MailAsideKeeps
  <1>5. QED
    BY <1>1, <1>2, <1>3, <1>4 DEF Next

LEMMA MailAlways == Spec => []MailInvariant
  <1>1. Init => MailInvariant
    BY IdleType DEF Init, MailInvariant, Works, At, PendingHasCause, FateKnown
  <1>2. QED
    BY <1>1, NextMail, TypeCorrect, QuietAlways, PTL DEF Spec

\* A row stays pending only after a kill or a failure of the database, or when
\* its client left before an orderly stop: whatever the handlers do, the stop
\* accounts for every email whose client waits.
THEOREM PendingCaused == Spec => []PendingHasCause
  <1>1. MailInvariant => PendingHasCause
    BY DEF MailInvariant
  <1>2. QED
    BY <1>1, MailAlways, PTL

\* "sent" and "failed" say what became of an email, but for the failures named.
THEOREM FateTold == Spec => []FateKnown
  <1>1. MailInvariant => FateKnown
    BY DEF MailInvariant
  <1>2. QED
    BY <1>1, MailAlways, PTL
-----------------------------------------------------------------------------
\* The signature's file.

\* A name of an image belongs to one request, unless two took it at once: the
\* row and the other requests do not know it yet, and the file is there from
\* the moment it is written.
ImageInvariant ==
    /\ SignatureHasFile
    /\ \A r \in Requests :
        req[r].path # Null /\ ~At(r, "write") => req[r].path \in files \cup holed
    /\ \A r \in Requests :
        req[r].path # Null /\ req[r].path \notin holed =>
            /\ signature # req[r].path
            /\ \A d \in Requests :
                /\ req[d].previous # req[r].path
                /\ d # r => req[d].path # req[r].path

\* Nothing of the signature changes: a request keeps its images, or it has none
\* any more and was not about to name one in the row.
ImageAside ==
    /\ UNCHANGED image
    /\ \A d \in Requests :
        \/ /\ req'[d].path = req[d].path /\ req'[d].previous = req[d].previous
           /\ At(d, "write") <=> At(d, "write")'
           /\ At(d, "update") => At(d, "update")'
        \/ req'[d].path = Null /\ req'[d].previous = Null /\ ~At(d, "update")

LEMMA ImageAsideKeeps == ImageInvariant /\ ImageAside => ImageInvariant'
  <1> SUFFICES ASSUME ImageInvariant, ImageAside PROVE ImageInvariant'
    OBVIOUS
  <1>1. UNCHANGED image
    BY DEF ImageAside
  <1>2. \A d \in Requests : req'[d].path # Null =>
          req'[d].path = req[d].path /\ (At(d, "write") <=> At(d, "write")')
    BY DEF ImageAside
  <1>3. \A d \in Requests : req'[d].previous # Null => req'[d].previous = req[d].previous
    BY DEF ImageAside
  <1>4. SignatureHasFile'
    <2> SUFFICES ASSUME signature # Null, signature \notin files \cup holed
                 PROVE  \E r \in Requests : (At(r, "update") /\ req[r].previous = signature)'
      BY <1>1 DEF SignatureHasFile
    <2>1. PICK r \in Requests : At(r, "update") /\ req[r].previous = signature
      BY DEF ImageInvariant, SignatureHasFile
    <2>2. QED
      BY <1>1, <2>1 DEF ImageAside
  <1>5. \A r \in Requests :
          req'[r].path # Null /\ ~At(r, "write")' => req'[r].path \in files' \cup holed'
    BY <1>1, <1>2 DEF ImageInvariant
  <1>6. ASSUME NEW r \in Requests, req'[r].path # Null, req'[r].path \notin holed'
        PROVE  /\ signature' # req'[r].path
               /\ \A d \in Requests :
                   req'[d].previous # req'[r].path /\ (d # r => req'[d].path # req'[r].path)
    BY <1>1, <1>2, <1>3, <1>6 DEF ImageInvariant
  <1>7. QED
    BY <1>4, <1>5, <1>6 DEF ImageInvariant

LEMMA SaveImage ==
  ASSUME TypeOK, ImageInvariant, NEW r \in Requests, Save(r)
  PROVE  ImageInvariant'
  <1>1. PICK p \in Paths :
          /\ Fresh(p)
          /\ req' = [req EXCEPT ![r] = [Idle EXCEPT !.pc = "write", !.path = p]]
          /\ holed' = IF \E d \in Requests : At(d, "write") /\ req[d].path = p
                      THEN holed \cup {p} ELSE holed \ {p}
          /\ files' = files \ {p}
    BY DEF Save
  <1>2. p # Null /\ signature' = signature /\ At(r, "idle")
    BY OfficeAssumption DEF Save, Free
  <1>3. /\ \A d \in Requests : d # r => req'[d] = req[d]
        /\ req'[r].path = p /\ req'[r].previous = Null /\ req'[r].pc = "write"
    <2> DEFINE new == [Idle EXCEPT !.pc = "write", !.path = p]
    <2>1. new.path = p /\ new.previous = Null /\ new.pc = "write"
      BY DEF Idle
    <2>2. req' = [req EXCEPT ![r] = new]
      BY <1>1
    <2> HIDE DEF new
    <2>3. QED
      BY <2>1, <2>2 DEF TypeOK
  <1>4. \/ p \in holed'
        \/ p # signature /\ \A d \in Requests : p # req[d].path /\ p # req[d].previous
    BY <1>1 DEF Fresh, Unused
  <1>5. \A q \in Paths : q # p => (q \in holed' <=> q \in holed) /\ (q \in files' <=> q \in files)
    BY <1>1
  <1>6. signature \in Paths \cup {Null} /\ \A d \in Requests : req[d].path \in Paths \cup {Null}
    BY DEF TypeOK, Request
  <1>7. SignatureHasFile'
    <2> SUFFICES ASSUME signature # Null, signature \notin files' \cup holed'
                 PROVE  \E d \in Requests : (At(d, "update") /\ req[d].previous = signature)'
      BY <1>2 DEF SignatureHasFile
    <2>1. signature \notin files \cup holed
      BY <1>4, <1>5, <1>6
    <2>2. PICK d \in Requests : At(d, "update") /\ req[d].previous = signature
      BY <2>1 DEF ImageInvariant, SignatureHasFile
    <2>3. d # r
      BY <1>2, <2>2 DEF At
    <2>4. QED
      BY <1>2, <1>3, <2>2, <2>3 DEF At
  <1>8. ASSUME NEW d \in Requests, req'[d].path # Null, ~At(d, "write")'
        PROVE  req'[d].path \in files' \cup holed'
    <2>1. d # r /\ req'[d] = req[d]
      BY <1>3, <1>8 DEF At
    <2>2. req[d].path \in files \cup holed
      BY <1>8, <2>1 DEF ImageInvariant, At
    <2>3. QED
      BY <1>4, <1>5, <1>6, <1>8, <2>1, <2>2
  <1>9. ASSUME NEW d \in Requests, req'[d].path # Null, req'[d].path \notin holed'
        PROVE  /\ signature' # req'[d].path
               /\ \A c \in Requests :
                   req'[c].previous # req'[d].path /\ (c # d => req'[c].path # req'[d].path)
    <2>1. CASE d = r
      BY <1>2, <1>3, <1>4, <1>9, <2>1
    <2>2. CASE d # r
      <3>1. req'[d] = req[d] /\ req[d].path # p
        BY <1>3, <1>4, <1>9, <2>2
      <3>2. req[d].path \notin holed
        BY <1>5, <1>6, <1>9, <3>1
      <3>3. /\ signature # req[d].path
            /\ \A c \in Requests :
                req[c].previous # req[d].path /\ (c # d => req[c].path # req[d].path)
        BY <1>9, <3>1, <3>2 DEF ImageInvariant
      <3>4. QED
        BY <1>2, <1>3, <1>9, <3>1, <3>3
    <2>3. QED
      BY <2>1, <2>2
  <1>10. QED
    BY <1>7, <1>8, <1>9 DEF ImageInvariant

\* A request that keeps its paths: the file is written, or the old one deleted.
LEMMA FileStepImage ==
  ASSUME TypeOK, ImageInvariant, NEW r \in Requests, Write(r) \/ DeletePrevious(r)
  PROVE  ImageInvariant'
  <1>1. UNCHANGED <<signature, holed>>
    BY DEF Write, DeletePrevious
  <1>2. PICK pc \in {"read", "update"} :
          /\ Goes(r, pc)
          /\ \/ pc = "read" /\ files' = files \cup {req[r].path} /\ At(r, "write")
             \/ /\ pc = "update" /\ At(r, "delete")
                /\ files' = files \/ files' = files \ {req[r].previous}
    BY DEF Write, DeletePrevious
  <1>3. /\ \A d \in Requests : d # r => req'[d] = req[d]
        /\ req'[r].pc = pc
        /\ req'[r].path = req[r].path /\ req'[r].previous = req[r].previous
    BY <1>2, GoesOn
  <1>4. \A d \in Requests : req'[d].path = req[d].path /\ req'[d].previous = req[d].previous
    BY <1>3
  <1>5. SignatureHasFile'
    <2> SUFFICES ASSUME signature # Null, signature \notin files' \cup holed
                 PROVE  \E d \in Requests : (At(d, "update") /\ req[d].previous = signature)'
      BY <1>1 DEF SignatureHasFile
    <2>1. CASE signature \in files
      <3>1. pc = "update" /\ req[r].previous = signature
        BY <1>2, <2>1
      <3>2. QED
        BY <1>1, <1>3, <3>1 DEF At
    <2>2. CASE signature \notin files
      <3>1. PICK d \in Requests : At(d, "update") /\ req[d].previous = signature
        BY <2>2 DEF ImageInvariant, SignatureHasFile
      <3>2. d # r
        BY <1>2, <3>1 DEF At
      <3>3. QED
        BY <1>1, <1>3, <3>1, <3>2 DEF At
    <2>3. QED
      BY <2>1, <2>2
  <1>6. ASSUME NEW d \in Requests, req'[d].path # Null, ~At(d, "write")'
        PROVE  req'[d].path \in files' \cup holed'
    <2>1. CASE At(d, "write")
      <3>1. d = r
        BY <1>3, <1>6, <2>1 DEF At
      <3>2. QED
        BY <1>2, <1>4, <2>1, <3>1 DEF At
    <2>2. CASE ~At(d, "write")
      <3>1. req[d].path \in files \cup holed
        BY <1>4, <1>6, <2>2 DEF ImageInvariant
      <3>2. req[d].path \in holed \/ req[r].previous # req[d].path
        BY <1>4, <1>6 DEF ImageInvariant
      <3>3. QED
        BY <1>1, <1>2, <1>4, <3>1, <3>2
    <2>3. QED
      BY <2>1, <2>2
  <1>7. ASSUME NEW d \in Requests, req'[d].path # Null, req'[d].path \notin holed'
        PROVE  /\ signature' # req'[d].path
               /\ \A c \in Requests :
                   req'[c].previous # req'[d].path /\ (c # d => req'[c].path # req'[d].path)
    BY <1>1, <1>4, <1>7 DEF ImageInvariant
  <1>8. QED
    BY <1>5, <1>6, <1>7 DEF ImageInvariant

LEMMA ReadImage ==
  ASSUME TypeOK, ImageInvariant, NEW r \in Requests, ReadPrevious(r)
  PROVE  ImageInvariant'
  <1>1. UNCHANGED image
    BY DEF ReadPrevious
  <1>2. /\ \A d \in Requests : d # r => req'[d] = req[d]
        /\ req'[r].path = req[r].path /\ req'[r].previous = signature
        /\ req'[r].pc \in {"update", "delete"} /\ At(r, "read")
    <2> DEFINE new == [req[r] EXCEPT !.pc = IF signature = Null THEN "update" ELSE "delete",
                                     !.previous = signature]
    <2>1. req[r] \in Request
      BY DEF TypeOK
    <2>2. new.path = req[r].path /\ new.previous = signature /\ new.pc \in {"update", "delete"}
      BY <2>1 DEF Request
    <2>3. req' = [req EXCEPT ![r] = new] /\ At(r, "read")
      BY DEF ReadPrevious, Runs
    <2> HIDE DEF new
    <2>4. QED
      BY <2>2, <2>3 DEF TypeOK
  <1>3. \A d \in Requests : req'[d].path = req[d].path
    BY <1>2
  <1>4. SignatureHasFile'
    <2> SUFFICES ASSUME signature # Null, signature \notin files \cup holed
                 PROVE  \E d \in Requests : (At(d, "update") /\ req[d].previous = signature)'
      BY <1>1 DEF SignatureHasFile
    <2>1. PICK d \in Requests : At(d, "update") /\ req[d].previous = signature
      BY DEF ImageInvariant, SignatureHasFile
    <2>2. d # r
      BY <1>2, <2>1 DEF At
    <2>3. QED
      BY <1>1, <1>2, <2>1, <2>2 DEF At
  <1>5. ASSUME NEW d \in Requests, req'[d].path # Null, ~At(d, "write")'
        PROVE  req'[d].path \in files' \cup holed'
    <2>1. ~At(d, "write")
      BY <1>2, <1>5 DEF At
    <2>2. QED
      BY <1>1, <1>3, <1>5, <2>1 DEF ImageInvariant
  <1>6. ASSUME NEW d \in Requests, req'[d].path # Null, req'[d].path \notin holed'
        PROVE  /\ signature' # req'[d].path
               /\ \A c \in Requests :
                   req'[c].previous # req'[d].path /\ (c # d => req'[c].path # req'[d].path)
    BY <1>1, <1>2, <1>3, <1>6 DEF ImageInvariant
  <1>7. QED
    BY <1>4, <1>5, <1>6 DEF ImageInvariant

LEMMA UpdateImage ==
  ASSUME TypeOK, ImageInvariant, NEW r \in Requests, UpdateSignature(r)
  PROVE  ImageInvariant'
  <1>1. signature' = req[r].path /\ UNCHANGED <<files, holed>> /\ At(r, "update")
    BY DEF UpdateSignature, Runs
  <1>2. /\ \A d \in Requests : d # r => req'[d] = req[d]
        /\ req'[r].path = Null /\ req'[r].previous = Null
    BY EndsNow DEF UpdateSignature
  <1>3. SignatureHasFile'
    <2>1. signature' # Null => signature' \in files' \cup holed'
      BY <1>1 DEF ImageInvariant, At
    <2>2. QED
      BY <2>1 DEF SignatureHasFile
  <1>4. ASSUME NEW d \in Requests, req'[d].path # Null, ~At(d, "write")'
        PROVE  req'[d].path \in files' \cup holed'
    BY <1>1, <1>2, <1>4 DEF ImageInvariant, At
  <1>5. ASSUME NEW d \in Requests, req'[d].path # Null, req'[d].path \notin holed'
        PROVE  /\ signature' # req'[d].path
               /\ \A c \in Requests :
                   req'[c].previous # req'[d].path /\ (c # d => req'[c].path # req'[d].path)
    <2>1. d # r /\ req'[d] = req[d]
      BY <1>2, <1>5
    <2>2. \A c \in Requests :
            req[c].previous # req[d].path /\ (c # d => req[c].path # req[d].path)
      BY <1>1, <1>5, <2>1 DEF ImageInvariant
    <2>3. QED
      BY <1>1, <1>2, <1>5, <2>1, <2>2
  <1>6. QED
    BY <1>3, <1>4, <1>5 DEF ImageInvariant

LEMMA FailsImage ==
  ASSUME TypeOK, Quiet, ImageInvariant, NEW r \in Requests, Fails(r)
  PROVE  ImageInvariant'
  <1>1. UNCHANGED <<signature, files>>
    BY DEF Fails
  <1>2. Excused(r)
    BY WaitedForRuns DEF Fails, At
  <1>3. CASE At(r, "update") /\ req[r].previous # Null
    <2>1. holed' = holed \cup {req[r].previous}
      BY <1>2, <1>3 DEF Fails
    <2>2. Ends(r)
      BY <1>3 DEF Fails, At
    <2>3. /\ \A d \in Requests : d # r => req'[d] = req[d]
          /\ req'[r].path = Null /\ req'[r].previous = Null
      BY <2>2, EndsNow
    <2>4. SignatureHasFile'
      <3> SUFFICES ASSUME signature # Null, signature \notin files \cup holed'
                   PROVE  \E d \in Requests : (At(d, "update") /\ req[d].previous = signature)'
        BY <1>1 DEF SignatureHasFile
      <3>1. PICK d \in Requests : At(d, "update") /\ req[d].previous = signature
        BY <2>1 DEF ImageInvariant, SignatureHasFile
      <3>2. d # r
        BY <2>1, <3>1
      <3>3. QED
        BY <1>1, <2>3, <3>1, <3>2 DEF At
    <2>5. ASSUME NEW d \in Requests, req'[d].path # Null, ~At(d, "write")'
          PROVE  req'[d].path \in files' \cup holed'
      BY <1>1, <2>1, <2>3, <2>5 DEF ImageInvariant, At
    <2>6. ASSUME NEW d \in Requests, req'[d].path # Null, req'[d].path \notin holed'
          PROVE  /\ signature' # req'[d].path
                 /\ \A c \in Requests :
                     req'[c].previous # req'[d].path /\ (c # d => req'[c].path # req'[d].path)
      <3>1. d # r /\ req'[d] = req[d] /\ req[d].path \notin holed
        BY <2>1, <2>3, <2>6
      <3>2. /\ signature # req[d].path
            /\ \A c \in Requests :
                req[c].previous # req[d].path /\ (c # d => req[c].path # req[d].path)
        BY <2>6, <3>1 DEF ImageInvariant
      <3>3. QED
        BY <1>1, <2>3, <2>6, <3>1, <3>2
    <2>7. QED
      BY <2>4, <2>5, <2>6 DEF ImageInvariant
  <1>4. CASE ~(At(r, "update") /\ req[r].previous # Null)
    <2>1. holed' = holed
      BY <1>4 DEF Fails
    <2>2. CASE At(r, "mark_sent")
      <3>1. Goes(r, "mark_failed")
        BY <2>2 DEF Fails
      <3>2. ImageAside
        BY <1>1, <2>1, <2>2, <3>1, GoesOn DEF ImageAside, At
      <3>3. QED
        BY <3>2, ImageAsideKeeps
    <2>3. CASE ~At(r, "mark_sent") /\ ~At(r, "update")
      <3>1. Ends(r)
        BY <2>3 DEF Fails
      <3>2. ImageAside
        BY <1>1, <2>1, <2>3, <3>1, EndsNow DEF ImageAside, At
      <3>3. QED
        BY <3>2, ImageAsideKeeps
    <2>4. CASE At(r, "update") /\ req[r].previous = Null
      <3>1. Ends(r)
        BY <2>4 DEF Fails, At
      <3>2. /\ \A d \in Requests : d # r => req'[d] = req[d]
            /\ req'[r].path = Null /\ req'[r].previous = Null
        BY <3>1, EndsNow
      <3>3. SignatureHasFile'
        <4> SUFFICES ASSUME signature # Null, signature \notin files \cup holed
                     PROVE  \E d \in Requests : (At(d, "update") /\ req[d].previous = signature)'
          BY <1>1, <2>1 DEF SignatureHasFile
        <4>1. PICK d \in Requests : At(d, "update") /\ req[d].previous = signature
          BY DEF ImageInvariant, SignatureHasFile
        <4>2. d # r
          BY <2>4, <4>1
        <4>3. QED
          BY <1>1, <3>2, <4>1, <4>2 DEF At
      <3>4. ASSUME NEW d \in Requests, req'[d].path # Null, ~At(d, "write")'
            PROVE  req'[d].path \in files' \cup holed'
        BY <1>1, <2>1, <3>2, <3>4 DEF ImageInvariant, At
      <3>5. ASSUME NEW d \in Requests, req'[d].path # Null, req'[d].path \notin holed'
            PROVE  /\ signature' # req'[d].path
                   /\ \A c \in Requests :
                       req'[c].previous # req'[d].path /\ (c # d => req'[c].path # req'[d].path)
        BY <1>1, <2>1, <3>2, <3>5 DEF ImageInvariant
      <3>6. QED
        BY <3>3, <3>4, <3>5 DEF ImageInvariant
    <2>5. QED
      BY <1>4, <2>2, <2>3, <2>4
  <1>5. QED
    BY <1>3, <1>4

\* A contract or an email has no image.
LEMMA OtherImage ==
  ASSUME TypeOK, ImageInvariant, NEW r \in Requests,
         \/ Remove(r) \/ \E b \in Bookings : Upload(r, b) \/ Remind(r, b)
         \/ Upsert(r) \/ Touch(r) \/ Enqueue(r) \/ Send(r) \/ MarkEmailSent(r) \/ MarkEmailFailed(r)
  PROVE  ImageInvariant'
  <1>a. UNCHANGED image
    BY DEF Remove, Upload, Remind, Upsert, Touch, Enqueue, Send, MarkEmailSent, MarkEmailFailed, Marks
  <1>b. ~At(r, "update") /\ ~At(r, "write")
    BY DEF Remove, Upload, Remind, Upsert, Touch, Enqueue, Send, MarkEmailSent, MarkEmailFailed,
           Free, Runs, At
  <1>1. CASE Remove(r) \/ \E b \in Bookings : Upload(r, b) \/ Remind(r, b)
    <2>1. PICK new : /\ req' = [req EXCEPT ![r] = new]
                     /\ new.path = Null /\ new.previous = Null
      <3>1. CASE Remove(r)
        <4>1. [Idle EXCEPT !.pc = "read"].path = Null /\ [Idle EXCEPT !.pc = "read"].previous = Null
          BY DEF Idle
        <4>2. QED
          BY <3>1, <4>1 DEF Remove
      <3>2. CASE \E b \in Bookings : Upload(r, b) \/ Remind(r, b)
        <4>1. PICK b \in Bookings, pc \in {"upsert", "touch"} :
                req' = [req EXCEPT ![r] = [Idle EXCEPT !.pc = pc, !.booking = b]]
          BY <3>2 DEF Upload, Remind
        <4>2. /\ [Idle EXCEPT !.pc = pc, !.booking = b].path = Null
              /\ [Idle EXCEPT !.pc = pc, !.booking = b].previous = Null
          BY DEF Idle
        <4>3. QED
          BY <4>1, <4>2
      <3>3. QED
        BY <1>1, <3>1, <3>2
    <2>2. req'[r] = new /\ \A d \in Requests : d # r => req'[d] = req[d]
      BY <2>1 DEF TypeOK
    <2>3. ImageAside
      BY <1>a, <1>b, <2>1, <2>2 DEF ImageAside, At
    <2>4. QED
      BY <2>3, ImageAsideKeeps
  <1>2. CASE Enqueue(r)
    <2>1. PICK e \in Emails : req' = [req EXCEPT ![r] = [req[r] EXCEPT !.pc = "send", !.email = e]]
      BY <1>2 DEF Enqueue
    <2> DEFINE new == [req[r] EXCEPT !.pc = "send", !.email = e]
    <2>2. req[r] \in Request
      BY DEF TypeOK
    <2>3. new.path = req[r].path /\ new.previous = req[r].previous /\ new.pc = "send"
      BY <2>2 DEF Request
    <2>4. req' = [req EXCEPT ![r] = new]
      BY <2>1
    <2> HIDE DEF new
    <2>5. req'[r] = new /\ \A d \in Requests : d # r => req'[d] = req[d]
      BY <2>4 DEF TypeOK
    <2>6. ImageAside
      BY <1>a, <1>b, <2>3, <2>5 DEF ImageAside, At
    <2>7. QED
      BY <2>6, ImageAsideKeeps
  <1>3. CASE Upsert(r) \/ Touch(r) \/ Send(r) \/ MarkEmailSent(r) \/ MarkEmailFailed(r)
    <2>1. Ends(r) \/ \E pc \in {"enqueue", "mark_sent", "mark_failed"} : Goes(r, pc)
      BY <1>3 DEF Upsert, Touch, Tells, Send, Delivery, MarkEmailSent, MarkEmailFailed, Marks
    <2>2. CASE Ends(r)
      <3>1. ImageAside
        BY <1>a, <1>b, <2>2, EndsNow DEF ImageAside, At
      <3>2. QED
        BY <3>1, ImageAsideKeeps
    <2>3. CASE \E pc \in {"enqueue", "mark_sent", "mark_failed"} : Goes(r, pc)
      <3>1. ImageAside
        BY <1>a, <1>b, <2>3, GoesOn DEF ImageAside, At
      <3>2. QED
        BY <3>1, ImageAsideKeeps
    <2>4. QED
      BY <2>1, <2>2, <2>3
  <1>4. QED
    BY <1>1, <1>2, <1>3

\* The process ends: an UPDATE that does not come any more has its cause.
LEMMA EndsImage ==
  ASSUME TypeOK, ImageInvariant, NEW R, EndsUnder(R),
         \A r \in Requests : At(r, "idle") \/ r \in R
  PROVE  ImageInvariant'
  <1>1. \A r \in Requests : req'[r].path = Null /\ req'[r].previous = Null
    BY IdleType DEF EndsUnder
  <1>2. UNCHANGED <<signature, files>> /\ holed \subseteq holed'
    BY DEF EndsUnder
  <1>3. \A r \in Requests : At(r, "update") /\ req[r].previous \in Paths => req[r].previous \in holed'
    BY DEF EndsUnder, At
  <1>4. SignatureHasFile'
    BY <1>2, <1>3 DEF ImageInvariant, SignatureHasFile, TypeOK
  <1>5. QED
    BY <1>1, <1>4 DEF ImageInvariant

LEMMA NextImage == TypeOK /\ Quiet /\ ImageInvariant /\ [Next]_vars => ImageInvariant'
  <1> SUFFICES ASSUME TypeOK, Quiet, ImageInvariant, [Next]_vars PROVE ImageInvariant'
    OBVIOUS
  <1>1. CASE \E r \in Requests : Begin(r) \/ Step(r) \/ Fails(r) \/ ClientLeaves(r)
    <2>1. PICK r \in Requests : Begin(r) \/ Step(r) \/ Fails(r) \/ ClientLeaves(r)
      BY <1>1
    <2>2. CASE ClientLeaves(r)
      <3>1. ImageAside
        BY <2>2, LeavesOne DEF ImageAside, At
      <3>2. QED
        BY <3>1, ImageAsideKeeps
    <2>3. QED
      BY <2>1, <2>2, SaveImage, FileStepImage, ReadImage, UpdateImage, FailsImage, OtherImage
         DEF Begin, Step
  <1>2. CASE Kill
    <2>1. EndsUnder(Requests)
      BY <1>2 DEF Kill
    <2>2. QED
      BY <2>1, EndsImage
  <1>3. CASE Exit
    <2>1. EndsUnder({r \in Requests : req[r].gone})
      BY <1>3 DEF Exit
    <2>2. \A r \in Requests : At(r, "idle") \/ req[r].gone
      BY <1>3 DEF Exit, Quiet, Tasks
    <2>3. QED
      BY <2>1, <2>2, EndsImage
  <1>4. CASE Signal \/ RunTask \/ Restart \/ (\E b \in Bookings : Confirm(b) \/ Close(b) \/ Day(b)) \/ UNCHANGED vars
    <2>1. ImageAside
      BY <1>4 DEF Signal, RunTask, Restart, Confirm, Close, Day, ImageAside, At
    <2>2. QED
      BY <2>1, ImageAsideKeeps
  <1>5. QED
    BY <1>1, <1>2, <1>3, <1>4 DEF Next

\* The row of the agency names a signature that is there, whatever two admins
\* save and remove at once, but for a request cut off after its deletion.
THEOREM SignatureKept == Spec => []SignatureHasFile
  <1>1. Init => ImageInvariant
    BY IdleType DEF Init, ImageInvariant, SignatureHasFile
  <1>2. ImageInvariant => SignatureHasFile
    BY DEF ImageInvariant
  <1>3. QED
    BY <1>1, <1>2, NextImage, TypeCorrect, QuietAlways, PTL DEF Spec
=============================================================================
