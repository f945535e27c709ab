------------------------ MODULE SlotReservationProofs ------------------------
(* Slots and vehicles for any number of rows, instructors, vehicles and     *)
(* requests in flight.                                                      *)
EXTENDS SlotReservation, SlotRulesProofs

-----------------------------------------------------------------------------
(* Types. *)

Places == {Place(i, v, t) : i \in Instructors, v \in Cars, t \in Starts}
WorkPeriods == {p \in FirstHours \cup UNION Hours : p.from < p.to}
ServiceStatuses == {"ACTIVE", "INACTIVE", "ARCHIVED"}

Requests == {Idle}
    \cup [op: {"create"}, instructor: Instructors, start: Starts,
          as: {"BOOKED", "PENDING_PAYMENT"}, cars: SUBSET Cars,
          validated: BOOLEAN, edited: BOOLEAN, withdrawn: SUBSET Vehicles]
    \cup [op: {"confirm"}, row: Rows]
    \cup [op: {"leave"}, instructor: Instructors, replaces: SUBSET Absences,
          leave: Absences, rows: SUBSET Rows]
    \cup [op: {"edit"}, instructor: Instructors, periods: SUBSET WorkPeriods,
          rows: SUBSET Rows, edited: BOOLEAN]
    \cup [op: FleetOps, vehicle: Vehicles, status: ServiceStatuses,
          period: 0..MaxPeriods, rows: SUBSET Rows]

Shape ==
    /\ status \in [Rows -> Statuses]
    /\ \A b \in Rows : Exists(b) => place[b] \in Places
    /\ place = [b \in Rows |-> place[b]]
    /\ lapsed \in [Rows -> BOOLEAN]
    /\ hours \in [Instructors -> SUBSET WorkPeriods]
    /\ leaves \in [Instructors -> SUBSET Absences]
    /\ service \in [Vehicles -> ServiceStatuses]
    /\ workshop \in [Vehicles -> [PeriodIds -> {"NONE", "OPEN", "CLOSED"}]]
    /\ bills \in [Vehicles -> [PeriodIds -> Nat]]
    /\ request \in [Handlers -> Requests]
    /\ scope \in Scopes

LEMMA RequestKinds ==
    ASSUME NEW q \in Requests
    PROVE  /\ q.op = "create" =>
                 /\ q.instructor \in Instructors
                 /\ q.start \in Starts
                 /\ q.as \in {"BOOKED", "PENDING_PAYMENT"}
                 /\ q.cars \in SUBSET Cars
                 /\ q.validated \in BOOLEAN
                 /\ q.edited \in BOOLEAN
                 /\ q.withdrawn \in SUBSET Vehicles
           /\ q.op = "confirm" => q.row \in Rows
           /\ q.op = "leave" => /\ q.instructor \in Instructors
                                /\ q.replaces \in SUBSET Absences
                                /\ q.leave \in Absences
                                /\ q.rows \in SUBSET Rows
           /\ q.op = "edit" => /\ q.instructor \in Instructors
                               /\ q.periods \in SUBSET WorkPeriods
                               /\ q.rows \in SUBSET Rows
                               /\ q.edited \in BOOLEAN
           /\ q.op \in FleetOps => /\ q.vehicle \in Vehicles
                                   /\ q.status \in ServiceStatuses
                                   /\ q.period \in 0..MaxPeriods
                                   /\ q.rows \in SUBSET Rows
           /\ q.op \in {"idle", "create", "confirm", "leave", "edit"} \cup FleetOps
BY DEF Requests, Idle, FleetOps

LEMMA ShapeInit == Init => Shape
BY SlotReservationAssumption
   DEF Init, Shape, Statuses, Exists, ServiceStatuses, PeriodIds, Requests, Idle, WorkPeriods

(* The rows of a calendar, and the tables, as a step leaves them. *)
Tables == <<status, place, lapsed, hours, leaves, service, workshop, bills>>

(* A step that only reads leaves one request. *)
Reads(r) ==
    \/ \E i \in scope.instructors, t \in scope.starts, as \in {"BOOKED", "PENDING_PAYMENT"},
         cars \in IF scope.ownCar THEN {{NoVehicle}} ELSE SUBSET Vehicles :
            ReadCandidates(r, i, t, as, cars)
    \/ ValidateSlot(r)
    \/ \E v \in Cars : NextCandidate(r, v)
    \/ \E b \in Rows : ConfirmCheck(r, b)
    \/ \E i \in scope.instructors, leave \in Absences, late \in SUBSET Rows :
          \E replaces \in {{}} \cup {{l} : l \in leaves[i]} :
             LeaveBegin(r, i, replaces, leave, late)
    \/ \E i \in scope.instructors, periods \in Hours : ScheduleRead(r, i, periods)
    \/ \E op \in FleetOps, v \in Vehicles, k \in 0..MaxPeriods : FleetRead(r, op, v, k)
    \/ Abandon(r)

Replaceable(i, replaced) == replaced \in {{}} \cup {{l} : l \in leaves[i]}

(* What the request is then, and what was seen. *)
WellRead(r, q) ==
    \/ q = Idle
    \/ /\ q.op = "create"
       /\ ~q.validated
       /\ \A v \in q.cars \cap Vehicles :
             \/ service[v] = "ACTIVE"
             \/ /\ request[r].op = "create"
                /\ v \in request[r].cars
                /\ q.withdrawn = request[r].withdrawn
    \/ /\ q.op = "create"
       /\ q.validated
       /\ request[r].op = "create"
       /\ q.cars = request[r].cars
       /\ q.withdrawn = request[r].withdrawn
       /\ InstructorFree(q.instructor)
       /\ SlotOk(q.instructor, Lesson(q.start))
    \/ /\ q.op = "confirm"
       /\ RowFree(q.row)
       /\ status[q.row] = "PENDING_PAYMENT"
    \/ /\ q.op = "leave"
       /\ InstructorFree(q.instructor)
       /\ Replaceable(q.instructor, q.replaces)
       /\ \A l \in leaves[q.instructor] \ q.replaces : ~Overlaps(q.leave, l)
       /\ \A b \in RowsOf(q.instructor) : Reserving(b) /\ Meets(b, q.leave) => b \in q.rows
       /\ \A b \in q.rows : Exists(b)
    \/ /\ q.op = "edit"
       /\ \A b \in q.rows : /\ b \in RowsOf(q.instructor)
                            /\ FitsNewPeriods(place[b].slot, q.periods)
    \/ /\ q.op \in FleetOps
       /\ Allowed(q.op, q.vehicle)
       /\ q.status = service[q.vehicle]
       /\ q.op = "return" => q.period \in OpenPeriods(q.vehicle)
       /\ \A b \in q.rows : Exists(b)

LEMMA ReadsKeepShape ==
    ASSUME Shape, NEW r \in Handlers, Reads(r)
    PROVE  /\ Shape'
           /\ UNCHANGED <<Tables, scope, ghosts>>
           /\ \E q \in Requests : WellRead(r, q) /\ request' = [request EXCEPT ![r] = q]
<1> USE SlotReservationAssumption
<1> DEFINE Only(q) == /\ q \in Requests
                      /\ WellRead(r, q)
                      /\ request' = [request EXCEPT ![r] = q]
                      /\ UNCHANGED <<Tables, scope, ghosts>>
<1>0. ASSUME NEW q, Only(q)
      PROVE  /\ Shape'
             /\ UNCHANGED <<Tables, scope, ghosts>>
             /\ \E c \in Requests : WellRead(r, c) /\ request' = [request EXCEPT ![r] = c]
  <2>1. Shape'
    BY <1>0 DEF Shape, Exists, Tables
  <2> QED
    BY <1>0, <2>1
<1> HIDE DEF Only
<1>1. ASSUME NEW i \in scope.instructors, NEW t \in scope.starts,
             NEW as \in {"BOOKED", "PENDING_PAYMENT"},
             NEW cars \in IF scope.ownCar THEN {{NoVehicle}} ELSE SUBSET Vehicles,
             ReadCandidates(r, i, t, as, cars)
      PROVE  \E q : Only(q)
  <2> DEFINE q == [op |-> "create", instructor |-> i, start |-> t, as |-> as,
                   cars |-> cars, validated |-> FALSE, edited |-> FALSE, withdrawn |-> {}]
  <2>1. i \in Instructors /\ t \in Starts /\ cars \in SUBSET Cars
    BY DEF Shape, Cars
  <2>2. \A v \in cars \cap Vehicles : service[v] = "ACTIVE"
    BY <1>1 DEF ReadCandidates, CandidateReads, InService
  <2>3. q \in Requests
    BY <2>1 DEF Requests
  <2>4. WellRead(r, q)
    <3>1. q.op = "create" /\ ~q.validated /\ q.withdrawn = {} /\ q.cars = cars
      OBVIOUS
    <3> HIDE DEF q
    <3> QED
      BY <2>2, <3>1 DEF WellRead
  <2>5. request' = [request EXCEPT ![r] = q] /\ UNCHANGED <<Tables, scope, ghosts>>
    BY <1>1 DEF ReadCandidates, Start, Tables, rowVars, fleetVars
  <2> QED
    BY <2>3, <2>4, <2>5 DEF Only
<1>2. ASSUME ValidateSlot(r)
      PROVE  Only([request[r] EXCEPT !.validated = TRUE])
  <2> PICK q \in Requests : q = request[r] /\ q.op = "create"
    BY <1>2 DEF Shape, ValidateSlot, Creating
  <2>1. q \in [op: {"create"}, instructor: Instructors, start: Starts,
               as: {"BOOKED", "PENDING_PAYMENT"}, cars: SUBSET Cars,
               validated: BOOLEAN, edited: BOOLEAN, withdrawn: SUBSET Vehicles]
    BY DEF Requests, Idle, FleetOps
  <2> DEFINE n == [q EXCEPT !.validated = TRUE]
  <2>2. n \in Requests /\ n.op = "create" /\ n.validated
        /\ n.instructor = q.instructor /\ n.start = q.start
        /\ n.cars = q.cars /\ n.withdrawn = q.withdrawn
    BY <2>1 DEF Requests
  <2>3. /\ InstructorFree(q.instructor)
        /\ SlotOk(q.instructor, Lesson(q.start))
        /\ request' = [request EXCEPT ![r] = n]
        /\ UNCHANGED <<Tables, scope, ghosts>>
    BY <1>2 DEF ValidateSlot, Continue, Tables, rowVars, fleetVars
  <2> HIDE DEF n
  <2>4. WellRead(r, n)
    BY <2>2, <2>3 DEF WellRead
  <2> QED
    BY <2>2, <2>3, <2>4 DEF Only, n
<1>3. ASSUME NEW v \in Cars, NextCandidate(r, v)
      PROVE  \E q : Only(q)
  <2> PICK q \in Requests : q = request[r] /\ q.op = "create"
    BY <1>3 DEF Shape, NextCandidate, Creating
  <2>1. q \in [op: {"create"}, instructor: Instructors, start: Starts,
               as: {"BOOKED", "PENDING_PAYMENT"}, cars: SUBSET Cars,
               validated: BOOLEAN, edited: BOOLEAN, withdrawn: SUBSET Vehicles]
    BY DEF Requests, Idle, FleetOps
  <2> DEFINE n == [q EXCEPT !.cars = @ \ {v}, !.validated = FALSE]
  <2>2. n \in Requests /\ n.op = "create" /\ ~n.validated
        /\ n.cars = q.cars \ {v} /\ n.withdrawn = q.withdrawn
    BY <2>1 DEF Requests
  <2>3. /\ request' = [request EXCEPT ![r] = IF q.cars = {v} THEN Idle ELSE n]
        /\ UNCHANGED <<Tables, scope, ghosts>>
    BY <1>3 DEF NextCandidate, Continue, Tables, rowVars, fleetVars
  <2> HIDE DEF n
  <2>4. WellRead(r, n) /\ WellRead(r, Idle) /\ Idle \in Requests
    BY <2>2 DEF WellRead, Requests
  <2> QED
    BY <2>2, <2>3, <2>4 DEF Only
<1>4. ASSUME NEW b \in Rows, ConfirmCheck(r, b) PROVE Only([op |-> "confirm", row |-> b])
  BY <1>4 DEF Only, ConfirmCheck, LiveHold, Requests, WellRead, Start, Tables, rowVars, fleetVars
<1>5. ASSUME NEW i \in scope.instructors, NEW leave \in Absences, NEW late \in SUBSET Rows,
             NEW replaces \in {{}} \cup {{l} : l \in leaves[i]},
             LeaveBegin(r, i, replaces, leave, late)
      PROVE  \E q : Only(q)
  <2> DEFINE rows == late \cup {b \in RowsOf(i) : Reserving(b) /\ Meets(b, leave)}
             q == [op |-> "leave", instructor |-> i, replaces |-> replaces,
                   leave |-> leave, rows |-> rows]
  <2>1. i \in Instructors
    BY DEF Shape
  <2>2. replaces \in SUBSET Absences /\ rows \in SUBSET Rows
    BY <2>1 DEF Shape, RowsOf
  <2>3. q \in Requests
    BY <2>1, <2>2 DEF Requests
  <2>4. WellRead(r, q)
    <3>1. \A b \in rows : Exists(b)
      BY <1>5 DEF LeaveBegin, RowsOf
    <3> QED
      BY <1>5, <3>1 DEF WellRead, LeaveBegin, Replaceable
  <2>5. request' = [request EXCEPT ![r] = q] /\ UNCHANGED <<Tables, scope, ghosts>>
    BY <1>5 DEF LeaveBegin, Start, Tables, rowVars, fleetVars
  <2> QED
    BY <2>3, <2>4, <2>5 DEF Only
<1>6. ASSUME NEW i \in scope.instructors, NEW periods \in Hours, ScheduleRead(r, i, periods)
      PROVE  Only([op |-> "edit", instructor |-> i, periods |-> periods,
                   rows |-> {b \in RowsOf(i) : Reserving(b)}, edited |-> FALSE])
  <2>1. i \in Instructors /\ {b \in RowsOf(i) : Reserving(b)} \in SUBSET Rows
    BY DEF Shape, RowsOf
  <2>2. periods \in SUBSET WorkPeriods
    BY <1>6 DEF ScheduleRead, PeriodsValid, WorkPeriods
  <2> QED
    BY <1>6, <2>1, <2>2
       DEF Only, ScheduleRead, EditChecks, Requests, WellRead, Start, Tables, rowVars, fleetVars
<1>7. ASSUME NEW op \in FleetOps, NEW v \in Vehicles, NEW k \in 0..MaxPeriods,
             FleetRead(r, op, v, k)
      PROVE  \E q : Only(q)
  <2> DEFINE rows == IF op \in {"archive", "maintain"}
                     THEN {b \in RowsWith(v) : status[b] = "BOOKED"} ELSE {}
             q == [op |-> op, vehicle |-> v, status |-> service[v], period |-> k,
                   rows |-> rows]
  <2>1. rows \in SUBSET Rows /\ service[v] \in ServiceStatuses
        /\ \A b \in rows : Exists(b)
    BY DEF RowsWith, Shape
  <2> HIDE DEF rows
  <2>2. q \in Requests
    BY <2>1 DEF Requests
  <2>3. WellRead(r, q)
    BY <1>7, <2>1 DEF WellRead, FleetRead
  <2>4. request' = [request EXCEPT ![r] = q] /\ UNCHANGED <<Tables, scope, ghosts>>
    BY <1>7 DEF FleetRead, Start, Tables, rowVars, fleetVars, rows
  <2> QED
    BY <2>2, <2>3, <2>4 DEF Only
<1>8. ASSUME Abandon(r) PROVE Only(Idle)
  BY <1>8 DEF Only, Abandon, Finish, Continue, Requests, WellRead, Tables, rowVars, fleetVars
<1> QED
  BY <1>0, <1>1, <1>2, <1>3, <1>4, <1>5, <1>6, <1>7, <1>8 DEF Reads

(* A step that writes ends one request and may mark others: a creation or   *)
(* an edit that it overtook stays as it was, but for its marks.             *)
Follows(n, q) ==
    /\ n.op = q.op
    /\ q.op \notin {"create", "edit"} => n = q
    /\ q.op = "create" => /\ n.instructor = q.instructor
                          /\ n.start = q.start
                          /\ n.as = q.as
                          /\ n.cars = q.cars
                          /\ n.validated = q.validated
                          /\ q.withdrawn \subseteq n.withdrawn
                          /\ q.edited => n.edited
    /\ q.op = "edit" => /\ n.instructor = q.instructor
                        /\ n.periods = q.periods
                        /\ n.rows = q.rows

Ends(r) ==
    /\ request'[r] = Idle
    /\ \A q \in Handlers \ {r} : Follows(request'[q], request[q])

CreateRequest == [op: {"create"}, instructor: Instructors, start: Starts,
                  as: {"BOOKED", "PENDING_PAYMENT"}, cars: SUBSET Cars,
                  validated: BOOLEAN, edited: BOOLEAN, withdrawn: SUBSET Vehicles]
EditRequest == [op: {"edit"}, instructor: Instructors, periods: SUBSET WorkPeriods,
                rows: SUBSET Rows, edited: BOOLEAN]

LEMMA FinishEnds ==
    ASSUME Shape, NEW r \in Handlers, Finish(r)
    PROVE  Ends(r) /\ request' \in [Handlers -> Requests] /\ UNCHANGED scope
BY DEF Finish, Continue, Ends, Follows, Shape, Requests

LEMMA InsertKeepsShape ==
    ASSUME Shape, NEW r \in Handlers, NEW b \in Rows, NEW v \in Cars, InsertBooking(r, b, v)
    PROVE  Shape' /\ Ends(r)
<1>1. PICK q \in Requests : q = request[r] /\ q.op = "create"
  BY DEF InsertBooking, Creating, Shape
<1>2. q.instructor \in Instructors /\ q.start \in Starts /\ q.as \in Statuses
  BY <1>1, RequestKinds DEF Statuses
<1>3. Ends(r) /\ request' \in [Handlers -> Requests] /\ UNCHANGED scope
  BY FinishEnds DEF InsertBooking
<1>4. /\ status' = [status EXCEPT ![b] = q.as]
      /\ place' = [place EXCEPT ![b] = Place(q.instructor, v, q.start)]
      /\ UNCHANGED <<lapsed, hours, leaves, service, workshop, bills>>
  BY <1>1 DEF InsertBooking, fleetVars
<1>5. Place(q.instructor, v, q.start) \in Places
  BY <1>2 DEF Places
<1>6. status' \in [Rows -> Statuses] /\ place' = [c \in Rows |-> place'[c]]
  BY <1>2, <1>4 DEF Shape
<1>7. ASSUME NEW c \in Rows, status'[c] # "NONE" PROVE place'[c] \in Places
  BY <1>4, <1>5, <1>7 DEF Shape, Exists
<1> QED
  BY <1>3, <1>4, <1>6, <1>7 DEF Shape, Exists

LEMMA RowsKeepShape ==
    ASSUME Shape, status' \in [Rows -> Statuses], lapsed' \in [Rows -> BOOLEAN],
           \A b \in Rows : status'[b] # "NONE" => status[b] # "NONE",
           UNCHANGED <<place, hours, leaves, service, workshop, bills, request, scope>>
    PROVE  Shape'
BY DEF Shape, Exists

LEMMA ReleaseKeepsShape ==
    ASSUME Shape, NEW b \in Rows,
           HoldLapses(b) \/ \E to \in {"CANCELLED", "SETTLED"} : Release(b, to)
    PROVE  Shape' /\ UNCHANGED request
<1>1. CASE HoldLapses(b)
  BY <1>1, RowsKeepShape DEF HoldLapses, Shape, fleetVars, requestVars
<1>2. ASSUME NEW to \in {"CANCELLED", "SETTLED"}, Release(b, to)
      PROVE  Shape' /\ UNCHANGED request
  <2>1. status[b] # "NONE"
    BY <1>2 DEF Release, Occupies
  <2>2. status' = [status EXCEPT ![b] = to] /\ to \in Statuses
    BY <1>2 DEF Release, Statuses
  <2>3. UNCHANGED <<place, lapsed, hours, leaves, service, workshop, bills, request, scope>>
    BY <1>2 DEF Release, fleetVars, requestVars
  <2> QED
    BY <2>1, <2>2, <2>3, RowsKeepShape DEF Shape
<1> QED
  BY <1>1, <1>2

LEMMA ConfirmKeepsShape ==
    ASSUME Shape, NEW r \in Handlers, ConfirmCommit(r), status[request[r].row] # "NONE"
    PROVE  Shape' /\ Ends(r)
<1>1. Ends(r) /\ request' \in [Handlers -> Requests] /\ UNCHANGED scope
  BY FinishEnds DEF ConfirmCommit
<1>2. PICK b \in Rows : b = request[r].row
  BY RequestKinds DEF ConfirmCommit, Shape
<1>3. status' = [status EXCEPT ![b] = "BOOKED"]
      /\ UNCHANGED <<place, lapsed, hours, leaves, service, workshop, bills>>
  BY <1>2 DEF ConfirmCommit, fleetVars
<1> QED
  BY <1>1, <1>2, <1>3 DEF Shape, Exists, Statuses

LEMMA CancelLeaveKeepsShape ==
    ASSUME Shape, NEW i \in Instructors, NEW l \in leaves[i], CancelLeave(i, l)
    PROVE  Shape' /\ UNCHANGED request
<1>1. leaves' = [leaves EXCEPT ![i] = @ \ {l}]
      /\ UNCHANGED <<status, place, lapsed, hours, service, workshop, bills, request, scope>>
  BY DEF CancelLeave, rowVars, fleetVars, requestVars
<1> QED
  BY <1>1 DEF Shape, Exists

LEMMA LeaveKeepsShape ==
    ASSUME Shape, NEW r \in Handlers, LeaveCommit(r),
           \A b \in request[r].rows : Exists(b)
    PROVE  Shape' /\ Ends(r)
<1>1. Ends(r) /\ request' \in [Handlers -> Requests] /\ UNCHANGED scope
  BY FinishEnds DEF LeaveCommit
<1>2. PICK q \in Requests : q = request[r] /\ q.op = "leave"
  BY DEF LeaveCommit, Shape
<1>3. q.instructor \in Instructors /\ q.leave \in Absences
  BY <1>2, RequestKinds
<1>4. /\ leaves' = [leaves EXCEPT ![q.instructor] = (@ \ q.replaces) \cup {q.leave}]
      /\ status' = [b \in Rows |-> IF b \in q.rows THEN "CANCELLED" ELSE status[b]]
      /\ UNCHANGED <<place, lapsed, hours, service, workshop, bills>>
  BY <1>2 DEF LeaveCommit, CancelAll, fleetVars
<1>5. leaves' \in [Instructors -> SUBSET Absences]
  BY <1>3, <1>4 DEF Shape
<1>6. status' \in [Rows -> Statuses]
  BY <1>4 DEF Shape, Statuses
<1>7. \A b \in Rows : status'[b] # "NONE" => status[b] # "NONE"
  BY <1>2, <1>4 DEF Exists
<1> QED
  BY <1>1, <1>4, <1>5, <1>6, <1>7 DEF Shape, Exists

LEMMA ScheduleKeepsShape ==
    ASSUME Shape, NEW r \in Handlers, ScheduleCommit(r)
    PROVE  Shape' /\ Ends(r)
<1>1. PICK e \in Requests : e = request[r] /\ e.op = "edit"
  BY DEF ScheduleCommit, Shape
<1>2. e.instructor \in Instructors /\ e.periods \in SUBSET WorkPeriods
  BY <1>1, RequestKinds
<1>3. /\ \/ hours' = [hours EXCEPT ![e.instructor] = e.periods]
         \/ hours' = [hours EXCEPT ![e.instructor] = @ \cup e.periods]
      /\ UNCHANGED <<status, place, lapsed, leaves, service, workshop, bills, scope>>
  BY <1>1 DEF ScheduleCommit, rowVars, fleetVars
<1>4. hours' \in [Instructors -> SUBSET WorkPeriods]
  BY <1>2, <1>3 DEF Shape
<1>5. request' = [q \in Handlers |-> request'[q]] /\ request'[r] = Idle
  BY DEF ScheduleCommit
<1>6. ASSUME NEW q \in Handlers \ {r}
      PROVE  request'[q] \in Requests /\ Follows(request'[q], request[q])
  <2>1. CASE request[q].op \in {"create", "edit"} /\ request[q].instructor = e.instructor
    <3> PICK n \in Requests : n = request[q]
      BY DEF Shape
    <3> PICK m \in BOOLEAN : m = (n.edited \/ n.op = "edit" \/ n.validated)
      OBVIOUS
    <3>1. request'[q] = [n EXCEPT !.edited = m]
      BY <1>1, <2>1 DEF ScheduleCommit
    <3>2. CASE n.op = "create"
      <4>1. n \in CreateRequest
        BY <3>2 DEF Requests, CreateRequest, Idle, FleetOps
      <4> QED
        BY <3>1, <3>2, <4>1 DEF CreateRequest, Requests, Follows
    <3>3. CASE n.op = "edit"
      <4>1. n \in EditRequest
        BY <3>3 DEF Requests, EditRequest, Idle, FleetOps
      <4> QED
        BY <3>1, <3>3, <4>1 DEF EditRequest, Requests, Follows
    <3> QED
      BY <2>1, <3>2, <3>3
  <2>2. CASE ~(request[q].op \in {"create", "edit"} /\ request[q].instructor = e.instructor)
    BY <1>1, <2>2 DEF ScheduleCommit, Follows, Shape
  <2> QED
    BY <2>1, <2>2
<1>7. request' \in [Handlers -> Requests] /\ Ends(r)
  BY <1>5, <1>6 DEF Ends, Requests
<1> QED
  BY <1>3, <1>4, <1>7 DEF Shape, Exists

LEMMA ExceptInTable ==
    ASSUME NEW V, NEW P, NEW S, NEW f \in [V -> [P -> S]], NEW v \in V, NEW k, NEW x,
           k \in P => x \in S
    PROVE  [f EXCEPT ![v][k] = x] \in [V -> [P -> S]]
<1>1. [f[v] EXCEPT ![k] = x] \in [P -> S]
  OBVIOUS
<1> QED
  BY <1>1

LEMMA FleetKeepsShape ==
    ASSUME Shape, NEW r \in Handlers, FleetCommit(r),
           \A b \in request[r].rows : Exists(b)
    PROVE  Shape' /\ Ends(r)
<1>1. PICK e \in Requests : e = request[r] /\ e.op \in FleetOps
  BY DEF FleetCommit, Shape
<1>2. PICK v \in Vehicles : v = e.vehicle
  BY <1>1, RequestKinds
<1>3. NewStatus(e) \in ServiceStatuses
  BY <1>1, RequestKinds DEF NewStatus, ServiceStatuses, FleetOps
<1>4. /\ service' = [service EXCEPT ![v] = NewStatus(e)]
      /\ status' = [b \in Rows |-> IF b \in e.rows THEN "CANCELLED" ELSE status[b]]
      /\ UNCHANGED <<place, lapsed, hours, leaves, scope>>
  BY <1>1, <1>2 DEF FleetCommit, CancelAll
<1>5. workshop' \in [Vehicles -> [PeriodIds -> {"NONE", "OPEN", "CLOSED"}]]
  <2>1. \/ \E k : workshop' = [workshop EXCEPT ![v][k] = "OPEN"]
        \/ \E k : workshop' = [workshop EXCEPT ![v][k] = "CLOSED"]
        \/ workshop' = workshop
    BY <1>1, <1>2 DEF FleetCommit, ClosedPeriod
  <2>2. workshop \in [Vehicles -> [PeriodIds -> {"NONE", "OPEN", "CLOSED"}]]
    BY DEF Shape
  <2>3. ASSUME NEW k, NEW x \in {"NONE", "OPEN", "CLOSED"}
        PROVE  [workshop EXCEPT ![v][k] = x]
                  \in [Vehicles -> [PeriodIds -> {"NONE", "OPEN", "CLOSED"}]]
    BY <2>2, ExceptInTable, Zenon
  <2> QED
    BY <2>1, <2>2, <2>3
<1>6. bills' \in [Vehicles -> [PeriodIds -> Nat]]
  <2>1. \/ \E k : bills' = [bills EXCEPT ![v][k] = bills[v][k] + 1]
        \/ bills' = bills
    BY <1>1, <1>2 DEF FleetCommit, BillMaintenance
  <2>2. ASSUME NEW k PROVE [bills EXCEPT ![v][k] = bills[v][k] + 1] \in [Vehicles -> [PeriodIds -> Nat]]
    <3>1. k \in PeriodIds => bills[v][k] + 1 \in Nat
      BY DEF Shape
    <3>2. bills \in [Vehicles -> [PeriodIds -> Nat]]
      BY DEF Shape
    <3>3. ASSUME NEW x, k \in PeriodIds => x \in Nat
          PROVE  [bills EXCEPT ![v][k] = x] \in [Vehicles -> [PeriodIds -> Nat]]
      BY <3>2, <3>3, ExceptInTable, Zenon
    <3> QED
      BY <3>1, <3>3
  <2>3. bills \in [Vehicles -> [PeriodIds -> Nat]]
    BY DEF Shape
  <2> QED
    BY <2>1, <2>2, <2>3
<1>7. request' = [q \in Handlers |-> request'[q]] /\ request'[r] = Idle
  BY DEF FleetCommit
<1>8. ASSUME NEW q \in Handlers \ {r}
      PROVE  request'[q] \in Requests /\ Follows(request'[q], request[q])
  <2> PICK n \in Requests : n = request[q]
    BY DEF Shape
  <2>1. CASE request'[q] = request[q]
    BY <2>1 DEF Follows
  <2>2. CASE request'[q] # request[q]
    <3>1. n.op = "create" /\ request'[q] = [n EXCEPT !.withdrawn = @ \cup {v}]
      BY <1>1, <1>2, <2>2 DEF FleetCommit
    <3>2. n \in CreateRequest
      BY <3>1 DEF Requests, CreateRequest, Idle, FleetOps
    <3> QED
      BY <3>1, <3>2 DEF CreateRequest, Requests, Follows
  <2> QED
    BY <2>1, <2>2
<1>9. request' \in [Handlers -> Requests] /\ Ends(r)
  BY <1>7, <1>8 DEF Ends, Requests
<1>10. status' \in [Rows -> Statuses]
  BY <1>4 DEF Shape, Statuses
<1>11. \A b \in Rows : status'[b] # "NONE" => status[b] # "NONE"
  BY <1>1, <1>4 DEF Exists
<1>12. service' \in [Vehicles -> ServiceStatuses]
  BY <1>3, <1>4 DEF Shape
<1> QED
  BY <1>4, <1>5, <1>6, <1>9, <1>10, <1>11, <1>12 DEF Shape, Exists

-----------------------------------------------------------------------------
(* Locks: who holds an instructor, and who holds a row. *)

Locks ==
    /\ \A i \in Instructors, r, q \in Handlers :
          HoldsInstructor(r, i) /\ HoldsInstructor(q, i) => r = q
    /\ \A r \in Handlers : request[r].op = "confirm" =>
          /\ status[request[r].row] = "PENDING_PAYMENT"
          /\ \A q \in Handlers : request[q].op = "confirm" /\ request[q].row = request[r].row
                                    => q = r
    /\ \A r \in Handlers : request[r].op \in {"leave"} \cup FleetOps =>
          \A b \in request[r].rows : Exists(b)

LEMMA LocksInit == Init => Locks
BY DEF Init, Locks, HoldsInstructor, Idle, FleetOps

(* A step that ends one request at most, or none. *)
Quiet(r) == Ends(r) \/ UNCHANGED request

LEMMA QuietKeepsLocks ==
    ASSUME Shape, Locks, NEW r \in Handlers, Quiet(r), request' \in [Handlers -> Requests],
           \A b \in Rows : Exists(b) => status'[b] # "NONE",
           \A q \in Handlers : request[q].op = "confirm" /\ request'[q] # Idle =>
              status'[request[q].row] = status[request[q].row]
    PROVE  Locks'
<1>1. ASSUME NEW q \in Handlers
      PROVE  request'[q] = Idle \/ Follows(request'[q], request[q])
  BY DEF Quiet, Ends, Follows
<1>2. Idle.op = "idle"
  BY DEF Idle
<1>3. ASSUME NEW i \in Instructors, NEW q \in Handlers, HoldsInstructor(q, i)'
      PROVE  HoldsInstructor(q, i)
  BY <1>1, <1>2, <1>3 DEF HoldsInstructor, Follows
<1>4. ASSUME NEW q \in Handlers, request'[q].op \in {"confirm", "leave"} \cup FleetOps
      PROVE  request'[q] = request[q] /\ request'[q] # Idle
  BY <1>1, <1>2, <1>4 DEF Follows, FleetOps
<1>5. ASSUME NEW q \in Handlers, request'[q].op = "confirm"
      PROVE  status'[request'[q].row] = "PENDING_PAYMENT"
  BY <1>4, <1>5 DEF Locks
<1>6. ASSUME NEW q \in Handlers, request'[q].op \in {"leave"} \cup FleetOps,
             NEW b \in request'[q].rows
      PROVE  status'[b] # "NONE"
  BY <1>4, <1>6, RequestKinds DEF Locks, Shape
<1>7. ASSUME NEW q \in Handlers, NEW c \in Handlers, request'[q].op = "confirm",
             request'[c].op = "confirm", request'[c].row = request'[q].row
      PROVE  c = q
  BY <1>4, <1>7 DEF Locks
<1> QED
  BY <1>3, <1>5, <1>6, <1>7 DEF Locks, Exists

LEMMA ReadsKeepLocks ==
    ASSUME Shape, Locks, NEW r \in Handlers, Reads(r)
    PROVE  Locks'
<1>1. PICK q \in Requests : WellRead(r, q) /\ request' = [request EXCEPT ![r] = q]
  BY ReadsKeepShape
<1>2. UNCHANGED status
  BY ReadsKeepShape DEF Tables
<1>3. request'[r] = q /\ \A c \in Handlers \ {r} : request'[c] = request[c]
  BY <1>1 DEF Shape
<1>4. ASSUME NEW i \in Instructors, NEW c \in Handlers, NEW d \in Handlers,
             HoldsInstructor(c, i)', HoldsInstructor(d, i)'
      PROVE  c = d
  <2>1. ASSUME HoldsInstructor(r, i)', NEW x \in Handlers \ {r}, HoldsInstructor(x, i)'
        PROVE  FALSE
    <3>1. HoldsInstructor(x, i)
      BY <1>3, <2>1 DEF HoldsInstructor
    <3>2. InstructorFree(i)
      BY <1>1, <1>3, <2>1 DEF HoldsInstructor, WellRead, FleetOps, Idle
    <3> QED
      BY <3>1, <3>2 DEF InstructorFree
  <2>2. CASE c # r /\ d # r
    BY <1>3, <1>4, <2>2 DEF HoldsInstructor, Locks
  <2> QED
    BY <1>4, <2>1, <2>2
<1>5. ASSUME NEW c \in Handlers, request'[c].op = "confirm"
      PROVE  /\ status'[request'[c].row] = "PENDING_PAYMENT"
             /\ \A d \in Handlers : request'[d].op = "confirm" /\ request'[d].row = request'[c].row
                                    => d = c
  <2>1. q.op = "confirm" => RowFree(q.row) /\ status[q.row] = "PENDING_PAYMENT"
    BY <1>1 DEF WellRead, FleetOps, Idle
  <2> QED
    BY <1>2, <1>3, <1>5, <2>1 DEF Locks, RowFree
<1>6. ASSUME NEW c \in Handlers, request'[c].op \in {"leave"} \cup FleetOps,
             NEW b \in request'[c].rows
      PROVE  status'[b] # "NONE"
  <2>1. CASE c = r
    BY <1>1, <1>2, <1>3, <1>6, <2>1 DEF WellRead, Idle, FleetOps, Exists
  <2>2. CASE c # r
    BY <1>2, <1>3, <1>6, <2>2 DEF Locks, Exists
  <2> QED
    BY <2>1, <2>2
<1> QED
  BY <1>4, <1>5, <1>6 DEF Locks, Exists

Core == Shape /\ Locks

LEMMA InsertKeepsCore ==
    ASSUME Core, NEW r \in Handlers, NEW b \in Rows, NEW v \in Cars, InsertBooking(r, b, v)
    PROVE  Core'
<1>1. Shape' /\ Ends(r)
  BY InsertKeepsShape DEF Core
<1>2. \A c \in Rows : Exists(c) => status'[c] = status[c]
  BY DEF InsertBooking, Exists, Core, Shape
<1>3. ASSUME NEW q \in Handlers, request[q].op = "confirm" PROVE Exists(request[q].row)
  BY <1>3 DEF Core, Locks, Exists
<1>4. ASSUME NEW q \in Handlers, request[q].op = "confirm" PROVE request[q].row \in Rows
  BY <1>4, RequestKinds DEF Core, Shape
<1> QED
  BY <1>1, <1>2, <1>3, <1>4, QuietKeepsLocks DEF Core, Quiet, Shape, Exists

LEMMA CommitKeepsCore ==
    ASSUME Core, NEW r \in Handlers,
           ConfirmCommit(r) \/ LeaveCommit(r) \/ ScheduleCommit(r) \/ FleetCommit(r)
    PROVE  Core' /\ Ends(r)
<1>1. ASSUME NEW q \in Handlers, request[q].op = "confirm" PROVE request[q].row \in Rows
  BY <1>1, RequestKinds DEF Core, Shape
<1>2. ASSUME Shape', Ends(r),
             \A b \in Rows : Exists(b) => status'[b] # "NONE",
             \A q \in Handlers \ {r} : request[q].op = "confirm" =>
                status'[request[q].row] = status[request[q].row]
      PROVE  Core' /\ Ends(r)
  <2>1. request' \in [Handlers -> Requests] /\ request'[r] = Idle
    BY <1>2 DEF Shape, Ends
  <2> QED
    BY <1>2, <2>1, QuietKeepsLocks DEF Core, Quiet
<1>3. CASE ConfirmCommit(r)
  <2>1. request[r].row \in Rows /\ status[request[r].row] = "PENDING_PAYMENT"
    BY <1>1, <1>3 DEF ConfirmCommit, Core, Locks
  <2>2. status' = [status EXCEPT ![request[r].row] = "BOOKED"]
    BY <1>3 DEF ConfirmCommit
  <2>3. \A q \in Handlers \ {r} : request[q].op = "confirm" => request[q].row # request[r].row
    BY <1>3 DEF Core, Locks, ConfirmCommit
  <2>4. Shape' /\ Ends(r)
    BY <1>3, <2>1, ConfirmKeepsShape DEF Core
  <2> QED
    BY <1>1, <1>2, <2>1, <2>2, <2>3, <2>4 DEF Core, Shape, Exists
<1>4. ASSUME CancelAll(request[r].rows),
             Shape', Ends(r)
      PROVE  Core' /\ Ends(r)
  <2>1. status' = [b \in Rows |-> IF b \in request[r].rows THEN "CANCELLED" ELSE status[b]]
        /\ \A b \in request[r].rows : RowFree(b)
    BY <1>4 DEF CancelAll
  <2>2. \A q \in Handlers : request[q].op = "confirm" => request[q].row \notin request[r].rows
    BY <2>1 DEF RowFree
  <2> QED
    BY <1>1, <1>2, <1>4, <2>1, <2>2 DEF Exists
<1>5. CASE LeaveCommit(r)
  <2>1. \A b \in request[r].rows : Exists(b)
    BY <1>5 DEF LeaveCommit, Core, Locks
  <2> QED
    BY <1>4, <1>5, <2>1, LeaveKeepsShape DEF LeaveCommit, Core
<1>6. CASE FleetCommit(r)
  <2>1. \A b \in request[r].rows : Exists(b)
    BY <1>6 DEF FleetCommit, Core, Locks
  <2> QED
    BY <1>4, <1>6, <2>1, FleetKeepsShape DEF FleetCommit, Core
<1>7. CASE ScheduleCommit(r)
  <2>1. Shape' /\ Ends(r)
    BY <1>7, ScheduleKeepsShape DEF Core
  <2>2. UNCHANGED status
    BY <1>7 DEF ScheduleCommit, rowVars
  <2> QED
    BY <1>2, <2>1, <2>2 DEF Exists
<1> QED
  BY <1>3, <1>5, <1>6, <1>7

LEMMA OtherStepsKeepCore ==
    ASSUME Core,
           \/ \E b \in Rows : HoldLapses(b) \/ \E to \in {"CANCELLED", "SETTLED"} : Release(b, to)
           \/ \E i \in Instructors : \E l \in leaves[i] : CancelLeave(i, l)
           \/ UNCHANGED vars
    PROVE  Core' /\ UNCHANGED request
<1>1. ASSUME Shape', UNCHANGED request,
             \A b \in Rows : Exists(b) => status'[b] # "NONE",
             \A q \in Handlers : request[q].op = "confirm" =>
                status'[request[q].row] = status[request[q].row]
      PROVE  Core' /\ UNCHANGED request
  <2>1. CASE Handlers = {}
    BY <1>1, <2>1 DEF Core, Locks
  <2>2. ASSUME NEW r \in Handlers PROVE Locks'
    BY <1>1, QuietKeepsLocks DEF Core, Quiet, Shape
  <2> QED
    BY <1>1, <2>1, <2>2 DEF Core
<1>2. ASSUME NEW q \in Handlers, request[q].op = "confirm" PROVE request[q].row \in Rows
  BY <1>2, RequestKinds DEF Core, Shape
<1>3. ASSUME NEW b \in Rows, HoldLapses(b) PROVE Core' /\ UNCHANGED request
  <2>1. Shape' /\ UNCHANGED request
    BY <1>3, ReleaseKeepsShape DEF Core
  <2> QED
    BY <1>1, <1>3, <2>1 DEF HoldLapses, Exists
<1>4. ASSUME NEW b \in Rows, NEW to \in {"CANCELLED", "SETTLED"}, Release(b, to)
      PROVE  Core' /\ UNCHANGED request
  <2>1. Shape' /\ UNCHANGED request
    BY <1>4, ReleaseKeepsShape DEF Core
  <2>2. status' = [status EXCEPT ![b] = to] /\ RowFree(b) /\ to # "NONE"
    BY <1>4 DEF Release
  <2>3. \A q \in Handlers : request[q].op = "confirm" => request[q].row # b
    BY <2>2 DEF RowFree
  <2> QED
    BY <1>1, <1>2, <2>1, <2>2, <2>3 DEF Exists, Core, Shape
<1>5. ASSUME NEW i \in Instructors, NEW l \in leaves[i], CancelLeave(i, l)
      PROVE  Core' /\ UNCHANGED request
  <2>1. Shape' /\ UNCHANGED request
    BY <1>5, CancelLeaveKeepsShape DEF Core
  <2> QED
    BY <1>1, <1>5, <2>1 DEF CancelLeave, rowVars, Exists
<1>6. CASE UNCHANGED vars
  BY <1>6 DEF Core, Shape, Locks, vars, rowVars, fleetVars, requestVars, Exists, HoldsInstructor
<1> QED
  BY <1>3, <1>4, <1>5, <1>6

(* The steps of the model, by what they write. *)
Steps ==
    \/ \E r \in Handlers : Reads(r)
    \/ \E r \in Handlers, b \in Rows, v \in Cars : InsertBooking(r, b, v)
    \/ \E r \in Handlers : ConfirmCommit(r)
    \/ \E r \in Handlers : LeaveCommit(r)
    \/ \E r \in Handlers : ScheduleCommit(r)
    \/ \E r \in Handlers : FleetCommit(r)
    \/ \E b \in Rows : HoldLapses(b)
    \/ \E b \in Rows, to \in {"CANCELLED", "SETTLED"} : Release(b, to)
    \/ \E i \in Instructors : \E l \in leaves[i] : CancelLeave(i, l)

LEMMA NextIsAStep == Next => Steps
<1>1. ASSUME NEW r \in Handlers, Create(r) PROVE Steps
  BY <1>1 DEF Create, Steps, Reads
<1>2. ASSUME NEW r \in Handlers, Confirm(r) PROVE Steps
  BY <1>2 DEF Confirm, Steps, Reads
<1>3. ASSUME NEW r \in Handlers, Leave(r) PROVE Steps
  BY <1>3 DEF Leave, Steps, Reads
<1>4. ASSUME NEW r \in Handlers, Edit(r) PROVE Steps
  BY <1>4 DEF Edit, Steps, Reads
<1>5. ASSUME NEW r \in Handlers, Fleet(r) PROVE Steps
  BY <1>5 DEF Fleet, Steps, Reads
<1>6. ASSUME NEW r \in Handlers, Abandon(r) PROVE Steps
  BY <1>6 DEF Steps, Reads
<1> QED
  BY <1>1, <1>2, <1>3, <1>4, <1>5, <1>6 DEF Next, Steps

LEMMA CoreStep == Core /\ [Next]_vars => Core'
<1> SUFFICES ASSUME Core, [Next]_vars PROVE Core'
  OBVIOUS
<1>1. ASSUME NEW r \in Handlers, Reads(r) PROVE Core'
  BY <1>1, ReadsKeepShape, ReadsKeepLocks DEF Core
<1>2. CASE UNCHANGED vars
  BY <1>2, OtherStepsKeepCore
<1>3. CASE Steps
  BY <1>1, <1>3, InsertKeepsCore, CommitKeepsCore, OtherStepsKeepCore DEF Steps
<1> QED
  BY <1>2, <1>3, NextIsAStep

-----------------------------------------------------------------------------
(* A step that inserts no row takes no slot and no row back. *)

Shrinks ==
    /\ UNCHANGED place
    /\ \A b \in Rows : /\ Occupies(b)' => Occupies(b)
                       /\ Exists(b)' <=> Exists(b)
                       /\ lapsed[b] => lapsed'[b]
                       /\ Reserving(b)' => Reserving(b) \/ lapsed'[b]

Marks == \A q \in Handlers : request'[q] = Idle \/ Follows(request'[q], request[q])

LEMMA CommitShrinks ==
    ASSUME Core, NEW r \in Handlers,
           ConfirmCommit(r) \/ LeaveCommit(r) \/ ScheduleCommit(r) \/ FleetCommit(r)
    PROVE  Shrinks /\ Marks
<1>1. Ends(r)
  BY CommitKeepsCore
<1>2. Marks
  BY <1>1 DEF Ends, Marks
<1>3. CASE ConfirmCommit(r)
  <2>1. request[r].row \in Rows /\ status[request[r].row] = "PENDING_PAYMENT"
    BY <1>3, RequestKinds DEF ConfirmCommit, Core, Locks, Shape
  <2> QED
    BY <1>2, <1>3, <2>1
       DEF ConfirmCommit, Shrinks, Core, Shape, Occupies, Exists, Reserving, LiveHold
<1>4. CASE /\ UNCHANGED <<place, lapsed>>
           /\ UNCHANGED status \/ (CancelAll(request[r].rows) /\ \A b \in request[r].rows : Exists(b))
  <2>1. ASSUME NEW b \in Rows
        PROVE  /\ status'[b] \in {status[b], "CANCELLED"}
               /\ status'[b] # "NONE" <=> status[b] # "NONE"
    BY <1>4 DEF CancelAll, Exists
  <2> QED
    BY <1>2, <1>4, <2>1 DEF Shrinks, Occupies, Exists, Reserving, LiveHold
<1>5. CASE LeaveCommit(r) \/ FleetCommit(r)
  <2>1. \A b \in request[r].rows : Exists(b)
    BY <1>5 DEF LeaveCommit, FleetCommit, Core, Locks
  <2> QED
    BY <1>4, <1>5, <2>1 DEF LeaveCommit, FleetCommit
<1>6. CASE ScheduleCommit(r)
  BY <1>4, <1>6 DEF ScheduleCommit, rowVars
<1> QED
  BY <1>3, <1>5, <1>6

LEMMA OtherStepsShrink ==
    ASSUME Core,
           \/ \E b \in Rows : HoldLapses(b) \/ \E to \in {"CANCELLED", "SETTLED"} : Release(b, to)
           \/ \E i \in Instructors : \E l \in leaves[i] : CancelLeave(i, l)
           \/ UNCHANGED vars
    PROVE  Shrinks /\ Marks
<1>1. Marks
  BY OtherStepsKeepCore DEF Marks, Follows
<1>2. ASSUME NEW b \in Rows, HoldLapses(b) PROVE Shrinks
  BY <1>2 DEF HoldLapses, Shrinks, Core, Shape, Occupies, Exists, Reserving, LiveHold
<1>3. ASSUME NEW b \in Rows, NEW to \in {"CANCELLED", "SETTLED"}, Release(b, to) PROVE Shrinks
  BY <1>3 DEF Release, Shrinks, Core, Shape, Occupies, Exists, Reserving, LiveHold
<1>4. CASE UNCHANGED <<status, place, lapsed>>
  <2>1. ASSUME NEW b \in Rows
        PROVE  /\ Occupies(b)' => Occupies(b)
               /\ Exists(b)' <=> Exists(b)
               /\ lapsed[b] => lapsed'[b]
    BY <1>4 DEF Occupies, Exists
  <2>2. ASSUME NEW b \in Rows
        PROVE  Reserving(b)' => Reserving(b)
    BY <1>4 DEF Reserving, LiveHold
  <2>3. UNCHANGED place
    BY <1>4
  <2> QED
    BY <1>1, <2>1, <2>2, <2>3 DEF Shrinks
<1> QED
  BY <1>1, <1>2, <1>3, <1>4 DEF CancelLeave, vars, rowVars

-----------------------------------------------------------------------------
(* No two rows that occupy a slot share what a lesson needs. *)

RowsApart ==
    \A b, c \in Rows : b # c /\ Occupies(b) /\ Occupies(c) /\ Meets(b, place[c].slot) =>
        /\ place[b].instructor # place[c].instructor
        /\ place[b].vehicle = place[c].vehicle => place[b].vehicle = NoVehicle

LEMMA StartsInDay ==
    ASSUME NEW t \in Starts
    PROVE  t \in Nat
<1>1. DayLength - Duration \in Int
  BY SlotRulesAssumption
<1> QED
  BY <1>1, SlotReservationAssumption

LEMMA ShrinkingKeepsRowsApart ==
    ASSUME RowsApart, Shrinks
    PROVE  RowsApart'
BY DEF RowsApart, Shrinks, Meets

LEMMA InsertKeepsRowsApart ==
    ASSUME Core, RowsApart, NEW r \in Handlers, NEW b \in Rows, NEW v \in Cars,
           InsertBooking(r, b, v)
    PROVE  RowsApart'
<1> USE SlotRulesAssumption
<1>1. PICK q \in Requests : q = request[r] /\ q.op = "create"
  BY DEF InsertBooking, Creating, Core, Shape
<1>2. q.instructor \in Instructors /\ q.start \in Starts
  BY <1>1, RequestKinds
<1> DEFINE new == Place(q.instructor, v, q.start)
<1>3. /\ status' = [status EXCEPT ![b] = q.as]
      /\ place' = [place EXCEPT ![b] = new]
      /\ ~InstructorExcluded(q.instructor, Lesson(q.start))
      /\ ~VehicleExcluded(v, Lesson(q.start))
  BY <1>1 DEF InsertBooking
<1>4. /\ \A c \in Rows \ {b} : place'[c] = place[c] /\ status'[c] = status[c]
      /\ place'[b] = new
  BY <1>3 DEF Core, Shape
<1>5. new.instructor = q.instructor /\ new.vehicle = v /\ new.slot = Lesson(q.start)
  BY DEF Place
<1> HIDE DEF new
<1>6. ASSUME NEW c \in Rows \ {b}, Occupies(c)
      PROVE  /\ Overlaps(place[c].slot, new.slot) =>
                   /\ place[c].instructor # new.instructor
                   /\ place[c].vehicle = new.vehicle => new.vehicle = NoVehicle
             /\ Overlaps(new.slot, place[c].slot) => Overlaps(place[c].slot, new.slot)
  <2>1. Exists(c) /\ place[c] \in Places
    BY <1>6 DEF Occupies, Exists, Core, Shape
  <2>2. PICK t \in Starts : place[c].slot = Lesson(t)
    BY <2>1 DEF Places, Place
  <2>3. t \in Nat /\ q.start \in Nat
    BY <1>2, StartsInDay
  <2>4. Overlaps(new.slot, place[c].slot) => Overlaps(place[c].slot, new.slot)
    BY <1>5, <2>2, <2>3 DEF Overlaps, Lesson, OpenEnd
  <2> QED
    BY <1>3, <1>5, <1>6, <2>1, <2>4
       DEF InstructorExcluded, VehicleExcluded, RowsOf, RowsWith, Meets
<1>7. ASSUME NEW c \in Rows, NEW d \in Rows, c # d, Occupies(c)', Occupies(d)',
             Overlaps(place'[c].slot, place'[d].slot)
      PROVE  /\ place'[c].instructor # place'[d].instructor
             /\ place'[c].vehicle = place'[d].vehicle => place'[c].vehicle = NoVehicle
  <2>1. CASE c = b
    BY <1>4, <1>6, <1>7, <2>1 DEF Occupies
  <2>2. CASE d = b
    BY <1>4, <1>6, <1>7, <2>2 DEF Occupies
  <2>3. CASE c # b /\ d # b
    BY <1>4, <1>7, <2>3 DEF Occupies, RowsApart, Meets
  <2> QED
    BY <2>1, <2>2, <2>3
<1> QED
  BY <1>7 DEF RowsApart, Meets

-----------------------------------------------------------------------------
(* The calendar: what a creation validated, and what a leave met, stays so  *)
(* while the request holds the instructor.                                  *)

LeavesApart ==
    \A i \in Instructors : \A l, m \in leaves[i] : l # m => ~Overlaps(l, m)

LeaveMeets ==
    \A r \in Handlers : request[r].op = "leave" =>
        /\ \A l \in leaves[request[r].instructor] \ request[r].replaces :
              ~Overlaps(request[r].leave, l)
        /\ \A b \in RowsOf(request[r].instructor) :
              Occupies(b) /\ Meets(b, request[r].leave) => b \in request[r].rows \/ lapsed[b]

Calendar == LeavesApart /\ ValidatedSlotIsFree /\ LeaveHasNoLessons /\ LeaveMeets

LEMMA CalendarInit == Init => Calendar
BY DEF Init, Calendar, LeavesApart, ValidatedSlotIsFree, LeaveHasNoLessons, LeaveMeets,
       Creating, Idle

(* A step that adds neither a row nor a leave. *)
LEMMA ShrinkingKeepsCalendar ==
    ASSUME Core, Calendar, Shrinks, Marks,
           \A i \in Instructors : leaves'[i] \subseteq leaves[i]
    PROVE  Calendar'
<1>1. Idle.op = "idle"
  BY DEF Idle
<1>2. \A i : RowsOf(i)' \subseteq RowsOf(i)
  BY DEF Shrinks, RowsOf
<1>3. \A b \in Rows : \A s : Meets(b, s)' => Meets(b, s)
  BY DEF Shrinks, Meets
<1>4. LeavesApart'
  BY DEF Calendar, LeavesApart
<1>5. ASSUME NEW r \in Handlers, Creating(r, TRUE)'
      PROVE  /\ Creating(r, TRUE)
             /\ request'[r].instructor = request[r].instructor
             /\ request'[r].start = request[r].start
             /\ request[r].instructor \in Instructors
  BY <1>1, <1>5, RequestKinds DEF Marks, Follows, Creating, Core, Shape
<1>6. ValidatedSlotIsFree'
  BY <1>2, <1>3, <1>5 DEF Calendar, ValidatedSlotIsFree, Shrinks, RowsOf
<1>7. LeaveHasNoLessons'
  BY <1>2, <1>3 DEF Calendar, LeaveHasNoLessons, Shrinks, RowsOf
<1>8. ASSUME NEW r \in Handlers, request'[r].op = "leave"
      PROVE  request'[r] = request[r] /\ request[r].instructor \in Instructors
  BY <1>1, <1>8, RequestKinds DEF Marks, Follows, Core, Shape
<1>9. LeaveMeets'
  BY <1>2, <1>3, <1>8 DEF Calendar, LeaveMeets, Shrinks, RowsOf
<1> QED
  BY <1>4, <1>6, <1>7, <1>9 DEF Calendar

LEMMA ReadsKeepCalendar ==
    ASSUME Core, Calendar, NEW r \in Handlers, Reads(r)
    PROVE  Calendar'
<1>1. PICK q \in Requests : WellRead(r, q) /\ request' = [request EXCEPT ![r] = q]
  BY ReadsKeepShape DEF Core
<1>2. UNCHANGED <<status, place, lapsed, leaves>>
  BY ReadsKeepShape DEF Tables, Core
<1>3. request'[r] = q /\ \A c \in Handlers \ {r} : request'[c] = request[c]
  BY <1>1 DEF Core, Shape
<1>4. /\ \A i : RowsOf(i)' = RowsOf(i)
      /\ \A b, s : Meets(b, s)' = Meets(b, s)
      /\ \A b : Occupies(b)' = Occupies(b)
      /\ \A b : Reserving(b)' = Reserving(b)
  BY <1>2 DEF RowsOf, Exists, Meets, Occupies, Reserving, LiveHold
<1>5. \A b \in Rows : Occupies(b) /\ ~Reserving(b) => lapsed[b]
  BY DEF Occupies, Reserving, LiveHold
<1>6. LeavesApart' /\ LeaveHasNoLessons'
  BY <1>2, <1>4 DEF Calendar, LeavesApart, LeaveHasNoLessons
<1>7. ValidatedSlotIsFree'
  <2>1. ASSUME q.op = "create", q.validated
        PROVE  SlotOk(q.instructor, Lesson(q.start))
    BY <1>1, <2>1 DEF WellRead, Idle, FleetOps
  <2>2. ASSUME NEW c \in Handlers, Creating(c, TRUE)',
               NEW l \in leaves[request'[c].instructor]
        PROVE  ~Overlaps(Lesson(request'[c].start), l)
    BY <1>2, <1>3, <2>1, <2>2 DEF Calendar, ValidatedSlotIsFree, Creating, SlotOk
  <2>3. ASSUME NEW c \in Handlers, Creating(c, TRUE)',
               NEW b \in RowsOf(request'[c].instructor), Occupies(b),
               Meets(b, Lesson(request'[c].start))
        PROVE  lapsed[b]
    BY <1>2, <1>3, <1>5, <2>1, <2>3
       DEF Calendar, ValidatedSlotIsFree, Creating, SlotOk, Blocks, RowsOf
  <2> QED
    BY <1>2, <1>4, <2>2, <2>3 DEF ValidatedSlotIsFree
<1>8. LeaveMeets'
  <2>1. ASSUME q.op = "leave"
        PROVE  /\ \A l \in leaves[q.instructor] \ q.replaces : ~Overlaps(q.leave, l)
               /\ \A b \in RowsOf(q.instructor) : Reserving(b) /\ Meets(b, q.leave) => b \in q.rows
    BY <1>1, <2>1 DEF WellRead, Idle, FleetOps
  <2>2. ASSUME NEW c \in Handlers, request'[c].op = "leave",
               NEW l \in leaves[request'[c].instructor] \ request'[c].replaces
        PROVE  ~Overlaps(request'[c].leave, l)
    BY <1>3, <2>1, <2>2 DEF Calendar, LeaveMeets
  <2>3. ASSUME NEW c \in Handlers, request'[c].op = "leave",
               NEW b \in RowsOf(request'[c].instructor), Occupies(b),
               Meets(b, request'[c].leave)
        PROVE  b \in request'[c].rows \/ lapsed[b]
    BY <1>3, <1>5, <2>1, <2>3 DEF Calendar, LeaveMeets, RowsOf
  <2> QED
    BY <1>2, <1>4, <2>2, <2>3 DEF LeaveMeets
<1> QED
  BY <1>6, <1>7, <1>8 DEF Calendar

LEMMA InsertKeepsCalendar ==
    ASSUME Core, Calendar, NEW r \in Handlers, NEW b \in Rows, NEW v \in Cars,
           InsertBooking(r, b, v)
    PROVE  Calendar'
<1>1. PICK q \in Requests : q = request[r] /\ q.op = "create" /\ q.validated
  BY DEF InsertBooking, Creating, Core, Shape
<1>2. q.instructor \in Instructors
  BY <1>1, RequestKinds
<1> DEFINE new == Place(q.instructor, v, q.start)
<1>3. /\ status[b] = "NONE"
      /\ status' = [status EXCEPT ![b] = q.as]
      /\ place' = [place EXCEPT ![b] = new]
      /\ UNCHANGED <<lapsed, leaves>>
      /\ request' = [request EXCEPT ![r] = Idle]
  BY <1>1 DEF InsertBooking, Finish, Continue
<1>4. /\ \A c \in Rows \ {b} : place'[c] = place[c] /\ status'[c] = status[c]
      /\ place'[b] = new
      /\ request'[r] = Idle
      /\ \A x \in Handlers \ {r} : request'[x] = request[x]
  BY <1>3 DEF Core, Shape
<1>5. new.instructor = q.instructor /\ new.slot = Lesson(q.start) /\ Idle.op = "idle"
  BY DEF Place, Idle
<1> HIDE DEF new
<1>6. \A i : RowsOf(i)' \subseteq RowsOf(i) \cup {b}
  BY <1>4 DEF RowsOf, Exists
<1>7. \A i \in Instructors : i # q.instructor => b \notin RowsOf(i)'
  BY <1>4, <1>5 DEF RowsOf
<1>8. \A c \in Rows \ {b} : /\ Occupies(c)' = Occupies(c)
                            /\ Reserving(c)' = Reserving(c)
                            /\ \A x : Meets(c, x)' = Meets(c, x)
  BY <1>3, <1>4 DEF Occupies, Reserving, LiveHold, Meets
<1>9. ASSUME NEW x \in Handlers \ {r}, Creating(x, TRUE) \/ request[x].op = "leave"
      PROVE  /\ request[x].instructor \in Instructors
             /\ request[x].instructor # q.instructor
  <2>1. request[x].instructor \in Instructors
    BY <1>9, RequestKinds DEF Creating, Core, Shape
  <2>2. HoldsInstructor(x, request[x].instructor) /\ HoldsInstructor(r, q.instructor)
    BY <1>1, <1>9 DEF HoldsInstructor, Creating
  <2> QED
    BY <1>2, <2>1, <2>2 DEF Core, Locks
<1>10. LeavesApart'
  BY <1>3 DEF Calendar, LeavesApart
<1>11. ValidatedSlotIsFree'
  <2>1. ASSUME NEW x \in Handlers, Creating(x, TRUE)'
        PROVE  x # r /\ Creating(x, TRUE) /\ request'[x] = request[x]
    BY <1>4, <1>5, <2>1 DEF Creating
  <2>2. ASSUME NEW x \in Handlers, Creating(x, TRUE)',
               NEW l \in leaves'[request'[x].instructor]
        PROVE  ~Overlaps(Lesson(request'[x].start), l)
    BY <1>3, <2>1, <2>2 DEF Calendar, ValidatedSlotIsFree
  <2>3. ASSUME NEW x \in Handlers, Creating(x, TRUE)',
               NEW c \in RowsOf(request[x].instructor)', Occupies(c)',
               Meets(c, Lesson(request[x].start))'
        PROVE  lapsed'[c]
    <3>1. /\ request[x].instructor \in Instructors \ {q.instructor}
          /\ Creating(x, TRUE) /\ request'[x] = request[x]
      BY <1>9, <2>1, <2>3
    <3>2. c # b /\ c \in RowsOf(request[x].instructor) /\ c \in Rows
      BY <1>6, <1>7, <2>3, <3>1 DEF RowsOf
    <3>3. Occupies(c) /\ Meets(c, Lesson(request[x].start))
      BY <1>8, <2>3, <3>1, <3>2
    <3> QED
      BY <1>3, <3>1, <3>2, <3>3 DEF Calendar, ValidatedSlotIsFree
  <2> QED
    BY <2>2, <2>3 DEF ValidatedSlotIsFree
<1>12. LeaveHasNoLessons'
  <2>1. \A l \in leaves[q.instructor] : ~Overlaps(Lesson(q.start), l)
    BY <1>1 DEF Calendar, ValidatedSlotIsFree, Creating
  <2>2. ASSUME NEW i \in Instructors, NEW l \in leaves[i], NEW c \in RowsOf(i)',
               Reserving(c)', Meets(c, l)'
        PROVE  lapsed'[c]
    <3>1. CASE c = b
      BY <1>4, <1>5, <1>7, <2>1, <2>2, <3>1 DEF Meets
    <3>2. CASE c # b
      BY <1>3, <1>6, <1>8, <2>2, <3>2 DEF Calendar, LeaveHasNoLessons, RowsOf
    <3> QED
      BY <3>1, <3>2
  <2> QED
    BY <1>3, <2>2 DEF LeaveHasNoLessons
<1>13. LeaveMeets'
  <2>1. ASSUME NEW x \in Handlers, request'[x].op = "leave"
        PROVE  x # r /\ request'[x] = request[x]
    BY <1>4, <1>5, <2>1
  <2>2. ASSUME NEW x \in Handlers, request'[x].op = "leave",
               NEW c \in RowsOf(request[x].instructor)', Occupies(c)',
               Meets(c, request[x].leave)'
        PROVE  c \in request'[x].rows \/ lapsed'[c]
    <3>1. /\ request[x].instructor \in Instructors \ {q.instructor}
          /\ request[x].op = "leave" /\ request'[x] = request[x]
      BY <1>9, <2>1, <2>2
    <3>2. c # b /\ c \in RowsOf(request[x].instructor) /\ c \in Rows
      BY <1>6, <1>7, <2>2, <3>1 DEF RowsOf
    <3>3. Occupies(c) /\ Meets(c, request[x].leave)
      BY <1>8, <2>2, <3>1, <3>2
    <3> QED
      BY <1>3, <3>1, <3>2, <3>3 DEF Calendar, LeaveMeets
  <2> QED
    BY <1>3, <2>1, <2>2 DEF Calendar, LeaveMeets
<1> QED
  BY <1>10, <1>11, <1>12, <1>13 DEF Calendar

LEMMA LeaveKeepsCalendar ==
    ASSUME Core, Calendar, NEW r \in Handlers, LeaveCommit(r)
    PROVE  Calendar'
<1>1. PICK q \in Requests : q = request[r] /\ q.op = "leave"
  BY DEF LeaveCommit, Core, Shape
<1>2. q.instructor \in Instructors /\ q.leave \in Absences
  BY <1>1, RequestKinds
<1>3. /\ leaves' = [leaves EXCEPT ![q.instructor] = (@ \ q.replaces) \cup {q.leave}]
      /\ status' = [b \in Rows |-> IF b \in q.rows THEN "CANCELLED" ELSE status[b]]
      /\ UNCHANGED <<place, lapsed>>
      /\ request' = [request EXCEPT ![r] = Idle]
  BY <1>1 DEF LeaveCommit, CancelAll, Finish, Continue
<1>4. /\ \A i \in Instructors \ {q.instructor} : leaves'[i] = leaves[i]
      /\ leaves'[q.instructor] = (leaves[q.instructor] \ q.replaces) \cup {q.leave}
  BY <1>2, <1>3 DEF Core, Shape
<1>5. /\ request'[r] = Idle
      /\ \A x \in Handlers \ {r} : request'[x] = request[x]
      /\ Idle.op = "idle"
  BY <1>3 DEF Core, Shape, Idle
<1>6. Shrinks
  BY CommitShrinks
<1>7. /\ \A i : RowsOf(i)' \subseteq RowsOf(i)
      /\ \A b \in Rows : \A s : Meets(b, s)' => Meets(b, s)
  BY <1>6 DEF Shrinks, RowsOf, Meets
<1>8. ASSUME NEW x \in Handlers, Creating(x, TRUE)' \/ request'[x].op = "leave"
      PROVE  /\ request'[x] = request[x]
             /\ x # r
             /\ request[x].instructor \in Instructors
             /\ leaves'[request[x].instructor] = leaves[request[x].instructor]
  <2>1. x # r /\ request'[x] = request[x]
    BY <1>5, <1>8 DEF Creating
  <2>2. request[x].instructor \in Instructors
    BY <1>8, <2>1, RequestKinds DEF Creating, Core, Shape
  <2>3. HoldsInstructor(x, request[x].instructor) /\ HoldsInstructor(r, q.instructor)
    BY <1>1, <1>8, <2>1 DEF HoldsInstructor, Creating
  <2> QED
    BY <1>2, <1>4, <2>1, <2>2, <2>3 DEF Core, Locks
<1>9. LeavesApart'
  <2>1. \A l \in leaves[q.instructor] \ q.replaces : ~Overlaps(q.leave, l)
    BY <1>1 DEF Calendar, LeaveMeets
  <2>2. ASSUME NEW l \in leaves[q.instructor] PROVE Overlaps(l, q.leave) => Overlaps(q.leave, l)
    <3>1. l \in Absences
      BY <1>2 DEF Core, Shape
    <3> QED
      BY <1>2, <3>1, SlotReservationAssumption DEF Overlaps, OpenEnd
  <2>3. ASSUME NEW l \in leaves'[q.instructor], NEW m \in leaves'[q.instructor], l # m
        PROVE  ~Overlaps(l, m)
    BY <1>2, <1>4, <2>1, <2>2, <2>3 DEF Calendar, LeavesApart
  <2> QED
    BY <1>4, <2>3 DEF Calendar, LeavesApart
<1>10. ValidatedSlotIsFree'
  <2>1. ASSUME NEW x \in Handlers, Creating(x, TRUE)' PROVE Creating(x, TRUE)
    BY <1>8, <2>1 DEF Creating
  <2>2. ASSUME NEW x \in Handlers, Creating(x, TRUE)',
               NEW l \in leaves'[request'[x].instructor]
        PROVE  ~Overlaps(Lesson(request'[x].start), l)
    BY <1>8, <2>1, <2>2 DEF Calendar, ValidatedSlotIsFree
  <2>3. ASSUME NEW x \in Handlers, Creating(x, TRUE)',
               NEW c \in RowsOf(request[x].instructor)', Occupies(c)',
               Meets(c, Lesson(request[x].start))'
        PROVE  lapsed'[c]
    <3>1. Creating(x, TRUE) /\ request'[x] = request[x]
      BY <1>8, <2>1, <2>3
    <3>2. c \in RowsOf(request[x].instructor) /\ c \in Rows
      BY <1>7, <2>3, <3>1 DEF RowsOf
    <3>3. Occupies(c) /\ Meets(c, Lesson(request[x].start))
      BY <1>6, <1>7, <2>3, <3>1, <3>2 DEF Shrinks
    <3> QED
      BY <1>3, <3>1, <3>2, <3>3 DEF Calendar, ValidatedSlotIsFree
  <2> QED
    BY <2>2, <2>3 DEF ValidatedSlotIsFree
<1>11. LeaveHasNoLessons'
  <2>1. \A b \in RowsOf(q.instructor) :
           Occupies(b) /\ Meets(b, q.leave) => b \in q.rows \/ lapsed[b]
    BY <1>1 DEF Calendar, LeaveMeets
  <2>2. ASSUME NEW b \in RowsOf(q.instructor)', Reserving(b)', Meets(b, q.leave)'
        PROVE  lapsed'[b]
    <3>1. b \in RowsOf(q.instructor) /\ b \in Rows /\ Meets(b, q.leave) /\ b \notin q.rows
      BY <1>3, <1>7, <2>2 DEF RowsOf, Reserving, LiveHold
    <3>2. Occupies(b)
      BY <1>3, <2>2, <3>1 DEF Reserving, LiveHold, Occupies
    <3> QED
      BY <1>3, <2>1, <3>1, <3>2
  <2>3. ASSUME NEW i \in Instructors, NEW l \in leaves[i], NEW b \in RowsOf(i)',
               Reserving(b)', Meets(b, l)'
        PROVE  lapsed'[b]
    BY <1>6, <1>7, <2>3 DEF Calendar, LeaveHasNoLessons, Shrinks, RowsOf
  <2>4. ASSUME NEW i \in Instructors, NEW l \in leaves'[i], NEW b \in RowsOf(i)',
               Reserving(b)', Meets(b, l)'
        PROVE  lapsed'[b]
    BY <1>4, <2>2, <2>3, <2>4
  <2> QED
    BY <2>4 DEF LeaveHasNoLessons
<1>12. LeaveMeets'
  <2>1. ASSUME NEW x \in Handlers, request'[x].op = "leave",
               NEW c \in RowsOf(request[x].instructor)', Occupies(c)',
               Meets(c, request[x].leave)'
        PROVE  c \in request'[x].rows \/ lapsed'[c]
    <3>1. request[x].op = "leave" /\ request'[x] = request[x]
      BY <1>8, <2>1
    <3>2. c \in RowsOf(request[x].instructor) /\ c \in Rows
      BY <1>7, <2>1, <3>1 DEF RowsOf
    <3>3. Occupies(c) /\ Meets(c, request[x].leave)
      BY <1>6, <1>7, <2>1, <3>1, <3>2 DEF Shrinks
    <3> QED
      BY <1>3, <3>1, <3>2, <3>3 DEF Calendar, LeaveMeets
  <2> QED
    BY <1>8, <2>1 DEF Calendar, LeaveMeets
<1> QED
  BY <1>9, <1>10, <1>11, <1>12 DEF Calendar

-----------------------------------------------------------------------------
(* The fleet.  A vehicle two overlapping requests changed is in clash.      *)

Withdrawn(v) == \A b \in RowsWith(v) : Occupies(b) /\ service[v] # "ACTIVE" => b \in missed

Offered(r) ==
    \A v \in request[r].cars \cap Vehicles :
        service[v] = "ACTIVE" \/ v \in request[r].withdrawn \/ v \in clash

Settled(r) ==
    LET v == request[r].vehicle
    IN \/ v \in clash
       \/ /\ Allowed(request[r].op, v)
          /\ request[r].status = service[v]
          /\ request[r].op = "return" => request[r].period \in OpenPeriods(v)

Maintained(v) ==
    /\ service[v] = "INACTIVE" <=> OpenPeriods(v) # {}
    /\ \A j, k \in OpenPeriods(v) : j = k
    /\ \A k \in PeriodIds : \/ bills[v][k] = 0
                            \/ bills[v][k] = 1 /\ workshop[v][k] = "CLOSED"

Fleets ==
    /\ \A v \in Vehicles \ clash : Withdrawn(v) /\ Maintained(v)
    /\ \A r \in Handlers : request[r].op = "create" => Offered(r)
    /\ \A r \in Handlers : request[r].op \in FleetOps => Settled(r)

LEMMA FleetsInit == Init => Fleets
BY DEF Init, Fleets, Withdrawn, Maintained, OpenPeriods, RowsWith, Exists, Idle, FleetOps

(* A step that changes no vehicle and inserts no row. *)
LEMMA ShrinkingKeepsFleets ==
    ASSUME Core, Fleets, Shrinks, Marks, UNCHANGED <<service, workshop, bills, missed, clash>>
    PROVE  Fleets'
<1>1. Idle.op = "idle" /\ "idle" \notin FleetOps
  BY DEF Idle, FleetOps
<1>2. ASSUME NEW v \in Vehicles \ clash PROVE Withdrawn(v)' /\ Maintained(v)'
  <2>1. Withdrawn(v) /\ Maintained(v)
    BY <1>2 DEF Fleets
  <2>2. Withdrawn(v)'
    BY <2>1 DEF Withdrawn, Shrinks, RowsWith
  <2>3. OpenPeriods(v)' = OpenPeriods(v)
    BY DEF OpenPeriods
  <2> QED
    BY <2>1, <2>2, <2>3 DEF Maintained
<1>3. ASSUME NEW r \in Handlers, request'[r].op = "create" PROVE Offered(r)'
  BY <1>1, <1>3 DEF Marks, Follows, Fleets, Offered
<1>4. ASSUME NEW r \in Handlers, request'[r].op \in FleetOps PROVE Settled(r)'
  <2>1. request'[r] = request[r] /\ request[r].op \in FleetOps
    BY <1>1, <1>4 DEF Marks, Follows, FleetOps
  <2>2. Settled(r)
    BY <2>1 DEF Fleets
  <2> QED
    BY <2>1, <2>2 DEF Settled, Allowed, OpenPeriods
<1> QED
  BY <1>2, <1>3, <1>4 DEF Fleets

LEMMA ReadsKeepFleets ==
    ASSUME Core, Fleets, NEW r \in Handlers, Reads(r)
    PROVE  Fleets'
<1>1. PICK q \in Requests : WellRead(r, q) /\ request' = [request EXCEPT ![r] = q]
  BY ReadsKeepShape DEF Core
<1>2. UNCHANGED <<status, place, service, workshop, bills, missed, clash>>
  BY ReadsKeepShape DEF Tables, Core, ghosts
<1>3. request'[r] = q /\ \A c \in Handlers \ {r} : request'[c] = request[c]
  BY <1>1 DEF Core, Shape
<1>4. /\ \A v : RowsWith(v)' = RowsWith(v)
      /\ \A b : Occupies(b)' = Occupies(b)
      /\ \A v : OpenPeriods(v)' = OpenPeriods(v)
      /\ \A op, v : Allowed(op, v)' = Allowed(op, v)
  BY <1>2 DEF RowsWith, Exists, Occupies, OpenPeriods, Allowed
<1>5. ASSUME NEW v \in Vehicles \ clash PROVE Withdrawn(v)' /\ Maintained(v)'
  BY <1>2, <1>4, <1>5 DEF Fleets, Withdrawn, Maintained
<1>6. ASSUME NEW c \in Handlers, request'[c].op = "create" PROVE Offered(c)'
  <2>1. CASE c = r
    <3>1. \A v \in q.cars \cap Vehicles :
             \/ service[v] = "ACTIVE"
             \/ /\ request[r].op = "create"
                /\ v \in request[r].cars
                /\ q.withdrawn = request[r].withdrawn
      BY <1>1, <1>3, <1>6, <2>1 DEF WellRead, Idle, FleetOps
    <3> QED
      BY <1>2, <1>3, <2>1, <3>1 DEF Fleets, Offered
  <2>2. CASE c # r
    BY <1>2, <1>3, <1>6, <2>2 DEF Fleets, Offered
  <2> QED
    BY <2>1, <2>2
<1>7. ASSUME NEW c \in Handlers, request'[c].op \in FleetOps PROVE Settled(c)'
  <2>1. CASE c = r
    <3>1. /\ Allowed(q.op, q.vehicle)
          /\ q.status = service[q.vehicle]
          /\ q.op = "return" => q.period \in OpenPeriods(q.vehicle)
      BY <1>1, <1>3, <1>7, <2>1 DEF WellRead, Idle, FleetOps
    <3> QED
      BY <1>2, <1>3, <1>4, <2>1, <3>1 DEF Settled
  <2>2. CASE c # r
    BY <1>2, <1>3, <1>4, <1>7, <2>2 DEF Fleets, Settled
  <2> QED
    BY <2>1, <2>2
<1> QED
  BY <1>2, <1>5, <1>6, <1>7 DEF Fleets

LEMMA InsertKeepsFleets ==
    ASSUME Core, Fleets, NEW r \in Handlers, NEW b \in Rows, NEW v \in Cars,
           InsertBooking(r, b, v)
    PROVE  Fleets'
<1>1. PICK q \in Requests : q = request[r] /\ q.op = "create" /\ v \in q.cars
  BY DEF InsertBooking, Creating, Core, Shape
<1>2. /\ status' = [status EXCEPT ![b] = q.as]
      /\ place' = [place EXCEPT ![b] = Place(q.instructor, v, q.start)]
      /\ missed' = IF v \in q.withdrawn THEN missed \cup {b} ELSE missed
      /\ UNCHANGED <<service, workshop, bills, clash>>
      /\ request' = [request EXCEPT ![r] = Idle]
  BY <1>1 DEF InsertBooking, Finish, Continue, fleetVars
<1>3. /\ \A c \in Rows \ {b} : place'[c] = place[c] /\ status'[c] = status[c]
      /\ place'[b].vehicle = v
      /\ request'[r] = Idle
      /\ \A x \in Handlers \ {r} : request'[x] = request[x]
  BY <1>2 DEF Core, Shape, Place
<1>4. Idle.op = "idle" /\ "idle" \notin FleetOps
  BY DEF Idle, FleetOps
<1>5. ASSUME NEW u \in Vehicles \ clash PROVE Withdrawn(u)' /\ Maintained(u)'
  <2>1. Maintained(u)'
    BY <1>2, <1>5 DEF Fleets, Maintained, OpenPeriods
  <2>2. ASSUME NEW c \in RowsWith(u)', Occupies(c)', service[u] # "ACTIVE"
        PROVE  c \in missed'
    <3>1. CASE c = b
      <4>1. u = v
        BY <1>3, <2>2, <3>1 DEF RowsWith
      <4>2. v \in q.withdrawn
        BY <1>1, <1>5, <2>2, <4>1 DEF Fleets, Offered
      <4> QED
        BY <1>2, <3>1, <4>2
    <3>2. CASE c # b
      <4>1. c \in RowsWith(u) /\ Occupies(c)
        BY <1>3, <2>2, <3>2 DEF RowsWith, Occupies, Exists
      <4> QED
        BY <1>2, <1>5, <2>2, <4>1 DEF Fleets, Withdrawn
    <3> QED
      BY <3>1, <3>2
  <2> QED
    BY <1>2, <2>1, <2>2 DEF Withdrawn
<1>6. ASSUME NEW x \in Handlers, request'[x].op # "idle"
      PROVE  x # r /\ request'[x] = request[x]
  BY <1>3, <1>4, <1>6
<1>7. ASSUME NEW x \in Handlers, request'[x].op = "create" PROVE Offered(x)'
  BY <1>2, <1>6, <1>7 DEF Fleets, Offered
<1>8. ASSUME NEW x \in Handlers, request'[x].op \in FleetOps PROVE Settled(x)'
  <2>1. request'[x] = request[x] /\ Settled(x)
    BY <1>4, <1>6, <1>8 DEF Fleets
  <2> QED
    BY <1>2, <2>1 DEF Settled, Allowed, OpenPeriods
<1> QED
  BY <1>2, <1>5, <1>7, <1>8 DEF Fleets

LEMMA FleetKeepsFleets ==
    ASSUME Core, Fleets, NEW r \in Handlers, FleetCommit(r)
    PROVE  Fleets'
<1>1. PICK e \in Requests : e = request[r] /\ e.op \in FleetOps
  BY DEF FleetCommit, Core, Shape
<1>2. PICK v \in Vehicles : v = e.vehicle
  BY <1>1, RequestKinds
<1> DEFINE withdraws == e.op \in {"archive", "maintain"}
<1>3. /\ service' = [service EXCEPT ![v] = NewStatus(e)]
      /\ status' = [b \in Rows |-> IF b \in e.rows THEN "CANCELLED" ELSE status[b]]
      /\ missed' = IF withdraws
                   THEN missed \cup {b \in RowsWith(v) : Occupies(b) /\ b \notin e.rows}
                   ELSE missed
      /\ clash' = IF Others(r, v) # {} THEN clash \cup {v} ELSE clash
      /\ UNCHANGED place
  BY <1>1, <1>2 DEF FleetCommit, CancelAll
<1>4. \/ /\ e.op = "maintain"
         /\ \E k \in PeriodIds : /\ workshop[v][k] = "NONE"
                                /\ workshop' = [workshop EXCEPT ![v][k] = "OPEN"]
         /\ UNCHANGED bills
      \/ /\ e.op = "return"
         /\ workshop' = [workshop EXCEPT ![v][e.period] = "CLOSED"]
         /\ \/ bills' = [bills EXCEPT ![v][e.period] = bills[v][e.period] + 1]
            \/ UNCHANGED bills
      \/ e.op \in {"archive", "rename"} /\ UNCHANGED <<workshop, bills>>
  <2>1. (\E k \in PeriodIds : workshop[v][k] = "NONE")
           => NewPeriod(v) \in PeriodIds /\ workshop[v][NewPeriod(v)] = "NONE"
    BY DEF NewPeriod
  <2> QED
    BY <1>1, <1>2, <2>1 DEF FleetCommit, ClosedPeriod, BillMaintenance
<1>5. ASSUME NEW q \in Handlers
      PROVE  request'[q] = IF q = r THEN Idle
                           ELSE IF withdraws /\ request[q].op = "create" /\ v \in request[q].cars
                                THEN [request[q] EXCEPT !.withdrawn = @ \cup {v}]
                                ELSE request[q]
  BY <1>1, <1>2 DEF FleetCommit
<1>6. Shrinks /\ Marks /\ request'[r].op = "idle"
  BY CommitShrinks, CommitKeepsCore DEF Ends, Idle
<1> DEFINE known == v \notin clash
<1>7. known => /\ Allowed(e.op, v)
               /\ e.status = service[v]
               /\ e.op = "return" => e.period \in OpenPeriods(v)
               /\ Withdrawn(v)
               /\ Maintained(v)
  BY <1>1, <1>2 DEF Fleets, Settled
<1>8. /\ service'[v] = NewStatus(e)
      /\ \A u \in Vehicles \ {v} : /\ service'[u] = service[u]
                                   /\ workshop'[u] = workshop[u]
                                   /\ bills'[u] = bills[u]
  BY <1>3, <1>4 DEF Core, Shape
<1>9. \A u \in Vehicles \ {v} : OpenPeriods(u)' = OpenPeriods(u)
  BY <1>8 DEF OpenPeriods
<1>10. /\ e.op = "archive" => NewStatus(e) = "ARCHIVED"
       /\ e.op = "maintain" => NewStatus(e) = "INACTIVE"
       /\ e.op = "return" => NewStatus(e) = "ACTIVE"
       /\ e.op = "rename" => NewStatus(e) = e.status
  BY DEF NewStatus
<1> HIDE DEF known
<1>11. ASSUME NEW u \in Vehicles \ {v}, u \notin clash PROVE Withdrawn(u)' /\ Maintained(u)'
  <2>1. missed \subseteq missed'
    BY <1>3
  <2>2. Withdrawn(u)'
    BY <1>6, <1>8, <1>11, <2>1 DEF Fleets, Withdrawn, Shrinks, RowsWith
  <2> QED
    BY <1>8, <1>9, <1>11, <2>2 DEF Fleets, Maintained
<1>12. ASSUME known PROVE Withdrawn(v)'
  <2>1. ASSUME NEW b \in RowsWith(v)', Occupies(b)', service'[v] # "ACTIVE"
        PROVE  b \in missed'
    <3>1. b \in RowsWith(v) /\ Occupies(b) /\ b \in Rows
      BY <1>6, <2>1 DEF Shrinks, RowsWith
    <3>2. b \notin e.rows
      BY <1>3, <2>1, <3>1 DEF Occupies
    <3>3. CASE withdraws
      BY <1>3, <3>1, <3>2, <3>3
    <3>4. CASE e.op = "rename"
      BY <1>3, <1>7, <1>8, <1>10, <1>12, <2>1, <3>1, <3>4 DEF Withdrawn
    <3> QED
      BY <1>1, <1>8, <1>10, <2>1, <3>3, <3>4 DEF FleetOps
  <2> QED
    BY <2>1 DEF Withdrawn
<1>13. ASSUME known PROVE Maintained(v)'
  <2>1. workshop[v] \in [PeriodIds -> {"NONE", "OPEN", "CLOSED"}] /\ bills[v] \in [PeriodIds -> Nat]
    BY DEF Core, Shape
  <2>2. CASE e.op = "maintain"
    <3>1. PICK k \in PeriodIds : /\ workshop[v][k] = "NONE"
                                 /\ workshop' = [workshop EXCEPT ![v][k] = "OPEN"]
                                 /\ UNCHANGED bills
      BY <1>4, <2>2
    <3>2. workshop'[v] = [workshop[v] EXCEPT ![k] = "OPEN"]
      BY <3>1 DEF Core, Shape
    <3>3. OpenPeriods(v) = {} /\ service'[v] = "INACTIVE"
      BY <1>7, <1>8, <1>10, <1>13, <2>2 DEF Maintained, Allowed
    <3>4. \A j \in PeriodIds : workshop'[v][j] = "OPEN" <=> j = k
      BY <2>1, <3>1, <3>2, <3>3 DEF OpenPeriods
    <3>5. \A j \in PeriodIds : workshop[v][j] = "CLOSED" => workshop'[v][j] = "CLOSED"
      BY <2>1, <3>1, <3>2
    <3> QED
      BY <1>7, <1>13, <3>1, <3>3, <3>4, <3>5 DEF Maintained, OpenPeriods
  <2>3. CASE e.op = "return"
    <3>1. /\ e.period \in PeriodIds /\ workshop[v][e.period] = "OPEN"
          /\ \A j \in PeriodIds : workshop[v][j] = "OPEN" => j = e.period
          /\ bills[v][e.period] = 0
      BY <1>7, <1>13, <2>3 DEF OpenPeriods, Maintained
    <3>2. workshop'[v] = [workshop[v] EXCEPT ![e.period] = "CLOSED"]
      BY <1>4, <2>3 DEF Core, Shape
    <3>3. \A j \in PeriodIds : workshop'[v][j] # "OPEN"
      BY <2>1, <3>1, <3>2
    <3>4. \A j \in PeriodIds : j # e.period =>
             workshop'[v][j] = workshop[v][j] /\ bills'[v][j] = bills[v][j]
      BY <1>4, <2>1, <2>3, <3>2 DEF Core, Shape
    <3>5. workshop'[v][e.period] = "CLOSED" /\ bills'[v][e.period] \in {0, 1}
      <4>1. bills'[v][e.period] \in {bills[v][e.period], bills[v][e.period] + 1}
        BY <1>4, <2>1, <2>3, <3>1 DEF Core, Shape
      <4> QED
        BY <2>1, <3>1, <3>2, <4>1
    <3>6. service'[v] = "ACTIVE"
      BY <1>8, <1>10, <2>3
    <3> QED
      BY <1>7, <1>13, <3>3, <3>4, <3>5, <3>6 DEF Maintained, OpenPeriods
  <2>4. CASE e.op \in {"archive", "rename"}
    <3>1. UNCHANGED <<workshop, bills>>
      BY <1>4, <2>4
    <3>2. service'[v] = "INACTIVE" <=> service[v] = "INACTIVE"
      BY <1>7, <1>8, <1>10, <1>13, <2>4 DEF Allowed
    <3> QED
      BY <1>7, <1>13, <3>1, <3>2 DEF Maintained, OpenPeriods
  <2> QED
    BY <1>1, <2>2, <2>3, <2>4 DEF FleetOps
<1>14. ASSUME NEW x \in Handlers, request'[x].op = "create" PROVE Offered(x)'
  <2>1. x # r /\ Idle.op = "idle"
    BY <1>6, <1>14 DEF Idle
  <2>2. PICK n \in Requests : n = request[x]
    BY DEF Core, Shape
  <2>3. /\ n.op = "create" /\ request'[x].cars = n.cars
        /\ n.withdrawn \subseteq request'[x].withdrawn
    BY <1>6, <1>14, <2>1, <2>2 DEF Marks, Follows, Idle
  <2>4. clash \subseteq clash'
    BY <1>3
  <2>5. ASSUME NEW u \in n.cars \cap Vehicles, u # v
        PROVE  service'[u] = "ACTIVE" \/ u \in request'[x].withdrawn \/ u \in clash'
    BY <1>8, <2>2, <2>3, <2>4, <2>5 DEF Fleets, Offered
  <2>6. ASSUME v \in n.cars
        PROVE  service'[v] = "ACTIVE" \/ v \in request'[x].withdrawn \/ v \in clash'
    <3>1. CASE withdraws
      <4>1. request'[x] = [n EXCEPT !.withdrawn = @ \cup {v}]
        BY <1>5, <2>1, <2>2, <2>3, <2>6, <3>1
      <4>2. n \in CreateRequest
        BY <2>3 DEF Requests, CreateRequest, Idle, FleetOps
      <4> QED
        BY <4>1, <4>2 DEF CreateRequest
    <3>2. CASE e.op = "return"
      BY <1>8, <1>10, <3>2
    <3>3. CASE e.op = "rename"
      BY <1>7, <1>8, <1>10, <2>2, <2>3, <2>4, <2>6, <3>3 DEF Fleets, Offered, known
    <3> QED
      BY <1>1, <3>1, <3>2, <3>3 DEF FleetOps
  <2> QED
    BY <2>3, <2>5, <2>6 DEF Offered
<1>15. ASSUME NEW x \in Handlers, request'[x].op \in FleetOps PROVE Settled(x)'
  <2>1. x # r /\ request'[x] = request[x] /\ request[x].op \in FleetOps
    BY <1>6, <1>15 DEF Marks, Follows, Idle, FleetOps
  <2>2. request[x].vehicle \in Vehicles /\ Settled(x)
    BY <2>1, RequestKinds DEF Core, Shape, Fleets
  <2>3. CASE request[x].vehicle = v
    <3>1. x \in Others(r, v)
      BY <2>1, <2>3 DEF Others
    <3> QED
      BY <1>3, <2>1, <2>3, <3>1 DEF Settled
  <2>4. CASE request[x].vehicle # v
    <3>1. \A op : Allowed(op, request[x].vehicle)' = Allowed(op, request[x].vehicle)
      BY <1>8, <2>1, <2>2, <2>4 DEF Allowed
    <3> QED
      BY <1>3, <1>8, <1>9, <2>1, <2>2, <2>4, <3>1 DEF Settled, Allowed
  <2> QED
    BY <2>3, <2>4
<1>16. clash \subseteq clash'
  BY <1>3
<1> QED
  BY <1>11, <1>12, <1>13, <1>14, <1>15, <1>16 DEF Fleets, known

-----------------------------------------------------------------------------
(* The working hours: the rows an edit checked fit what it writes, and a    *)
(* slot validated under the lock fits until an edit marks the request.      *)

InHours(b, periods) ==
    Reading(place[b].slot.to) # 0 => FitsInAPeriod(place[b].slot, periods)

Checked(r) ==
    request[r].op = "edit" =>
        \A b \in request[r].rows : /\ b \in RowsOf(request[r].instructor)
                                  /\ InHours(b, request[r].periods)

HoursKept ==
    /\ \A i \in Instructors : \A b \in RowsOf(i) :
          Occupies(b) /\ b \notin raced => InHours(b, hours[i])
    /\ \A r \in Handlers : Creating(r, TRUE) /\ ~request[r].edited =>
          FitsInAPeriod(Lesson(request[r].start), hours[request[r].instructor])
    /\ \A r \in Handlers : Checked(r)

LEMMA HoursKeptInit == Init => HoursKept
BY DEF Init, HoursKept, Checked, RowsOf, Exists, Creating, Idle

LEMMA WorkPeriodSets ==
    ASSUME NEW P \in SUBSET WorkPeriods
    PROVE  P \in PeriodSets
BY SlotReservationAssumption, ClockPeriodsFinite DEF WorkPeriods

LEMMA SlotsAreLessons ==
    ASSUME Shape, NEW b \in Rows, Exists(b)
    PROVE  \E t \in Starts : t \in 0..(DayLength - Duration) /\ place[b].slot = Lesson(t)
BY SlotReservationAssumption DEF Shape, Places, Place

LEMMA NewPeriodsInHours ==
    ASSUME Shape, NEW b \in Rows, Exists(b), NEW P, FitsNewPeriods(place[b].slot, P)
    PROVE  InHours(b, P)
<1>1. PICK t \in Starts : t \in 0..(DayLength - Duration) /\ place[b].slot = Lesson(t)
  BY SlotsAreLessons
<1>2. QED
  BY <1>1, ReadingsAgree DEF InHours, Lesson

LEMMA MoreHours ==
    ASSUME Shape, NEW b \in Rows, Exists(b), NEW P \in SUBSET WorkPeriods,
           NEW Q \in SUBSET WorkPeriods, P \subseteq Q, InHours(b, P)
    PROVE  InHours(b, Q)
<1>1. PICK t \in Starts : t \in 0..(DayLength - Duration) /\ place[b].slot = Lesson(t)
  BY SlotsAreLessons
<1>2. place[b].slot.from \in Int /\ place[b].slot.to \in Int
      /\ place[b].slot.from < place[b].slot.to
  BY <1>1, SlotRulesAssumption DEF Lesson
<1>3. P \in PeriodSets /\ Q \in PeriodSets
  BY WorkPeriodSets
<1>4. QED
  BY <1>2, <1>3, MorePeriodsFit DEF InHours

(* A step that adds no row and changes no hours. *)
LEMMA ShrinkingKeepsHours ==
    ASSUME Core, HoursKept, Shrinks, Marks, UNCHANGED <<hours, raced>>
    PROVE  HoursKept'
<1>1. Idle.op = "idle"
  BY DEF Idle
<1>2. \A i : RowsOf(i)' = RowsOf(i)
  BY DEF Shrinks, RowsOf
<1>3. ASSUME NEW b, NEW P PROVE InHours(b, P)' = InHours(b, P)
  BY DEF Shrinks, InHours
<1>4. ASSUME NEW r \in Handlers, Creating(r, TRUE)', ~request'[r].edited
      PROVE  /\ Creating(r, TRUE) /\ ~request[r].edited
             /\ request'[r].instructor = request[r].instructor
             /\ request'[r].start = request[r].start
  BY <1>1, <1>4 DEF Marks, Follows, Creating
<1>5. ASSUME NEW r \in Handlers, request'[r].op = "edit"
      PROVE  /\ request[r].op = "edit"
             /\ request'[r].instructor = request[r].instructor
             /\ request'[r].periods = request[r].periods
             /\ request'[r].rows = request[r].rows
  BY <1>1, <1>5 DEF Marks, Follows
<1>6. ASSUME NEW i \in Instructors, NEW b \in RowsOf(i)', Occupies(b)', b \notin raced'
      PROVE  InHours(b, hours[i])'
  BY <1>2, <1>3, <1>6 DEF HoursKept, Shrinks, RowsOf, InHours
<1>7. ASSUME NEW r \in Handlers PROVE Checked(r)'
  <2>1. CASE request'[r].op = "edit"
    <3>1. Checked(r)
      BY DEF HoursKept
    <3>2. QED
      BY <1>2, <1>3, <1>5, <2>1, <3>1 DEF Checked
  <2>2. CASE request'[r].op # "edit"
    BY <2>2 DEF Checked
  <2>3. QED
    BY <2>1, <2>2
<1>8. QED
  BY <1>4, <1>6, <1>7 DEF HoursKept, InHours

LEMMA ReadsKeepHours ==
    ASSUME Core, HoursKept, NEW r \in Handlers, Reads(r)
    PROVE  HoursKept'
<1>1. PICK q \in Requests : WellRead(r, q) /\ request' = [request EXCEPT ![r] = q]
  BY ReadsKeepShape DEF Core
<1>2. UNCHANGED <<status, place, hours, raced>>
  BY ReadsKeepShape DEF Tables, ghosts, Core
<1>3. request'[r] = q /\ \A c \in Handlers \ {r} : request'[c] = request[c]
  BY <1>1 DEF Core, Shape
<1>4. /\ \A i : RowsOf(i)' = RowsOf(i)
      /\ \A b : Occupies(b)' = Occupies(b)
  BY <1>2 DEF RowsOf, Exists, Occupies
<1>5. ASSUME NEW i \in Instructors, NEW b \in RowsOf(i)', Occupies(b)', b \notin raced'
      PROVE  InHours(b, hours[i])'
  BY <1>2, <1>4, <1>5 DEF HoursKept, InHours
<1>6. ASSUME NEW c \in Handlers, Creating(c, TRUE)', ~request'[c].edited
      PROVE  FitsInAPeriod(Lesson(request'[c].start), hours[request'[c].instructor])
  <2>1. CASE c = r
    BY <1>1, <1>3, <1>6, <2>1 DEF WellRead, Creating, SlotOk, Idle, FleetOps
  <2>2. CASE c # r
    BY <1>3, <1>6, <2>2 DEF HoursKept, Creating
  <2>3. QED
    BY <2>1, <2>2
<1>7. ASSUME NEW c \in Handlers PROVE Checked(c)'
  <2>1. CASE c = r /\ q.op = "edit"
    <3>1. ASSUME NEW b \in q.rows
          PROVE  b \in RowsOf(q.instructor) /\ InHours(b, q.periods)
      <4>1. b \in RowsOf(q.instructor) /\ FitsNewPeriods(place[b].slot, q.periods)
        BY <1>1, <2>1 DEF WellRead, Idle, FleetOps
      <4>2. QED
        BY <4>1, NewPeriodsInHours DEF RowsOf, Core
    <3>2. QED
      BY <1>2, <1>3, <1>4, <2>1, <3>1 DEF Checked, InHours
  <2>2. CASE c = r /\ q.op # "edit"
    BY <1>3, <2>2 DEF Checked
  <2>3. CASE c # r
    BY <1>2, <1>3, <1>4, <2>3 DEF HoursKept, Checked, InHours
  <2>4. QED
    BY <2>1, <2>2, <2>3
<1>8. QED
  BY <1>2, <1>4, <1>5, <1>6, <1>7 DEF HoursKept, InHours, Creating

LEMMA InsertKeepsHours ==
    ASSUME Core, HoursKept, NEW r \in Handlers, NEW b \in Rows, NEW v \in Cars,
           InsertBooking(r, b, v)
    PROVE  HoursKept'
<1>1. PICK q \in Requests : q = request[r] /\ q.op = "create" /\ q.validated
  BY DEF InsertBooking, Creating, Core, Shape
<1>2. q.instructor \in Instructors /\ q.start \in Starts
  BY <1>1, RequestKinds
<1> DEFINE new == Place(q.instructor, v, q.start)
<1>3. /\ status[b] = "NONE"
      /\ status' = [status EXCEPT ![b] = q.as]
      /\ place' = [place EXCEPT ![b] = new]
      /\ raced' = IF q.edited THEN raced \cup {b} ELSE raced
      /\ UNCHANGED hours
      /\ request' = [request EXCEPT ![r] = Idle]
  BY <1>1 DEF InsertBooking, Finish, Continue
<1>4. /\ \A c \in Rows \ {b} : place'[c] = place[c] /\ status'[c] = status[c]
      /\ place'[b] = new
      /\ request'[r] = Idle
      /\ \A x \in Handlers \ {r} : request'[x] = request[x]
  BY <1>3 DEF Core, Shape
<1>5. new.instructor = q.instructor /\ new.slot = Lesson(q.start) /\ Idle.op = "idle"
  BY DEF Place, Idle
<1> HIDE DEF new
<1>6. ASSUME NEW i \in Instructors, NEW c \in RowsOf(i)', Occupies(c)', c \notin raced'
      PROVE  InHours(c, hours[i])'
  <2>1. CASE c = b
    <3>1. i = q.instructor /\ ~q.edited
      BY <1>3, <1>4, <1>5, <1>6, <2>1 DEF RowsOf
    <3>2. FitsInAPeriod(Lesson(q.start), hours[i])
      BY <1>1, <3>1 DEF HoursKept, Creating
    <3>3. QED
      BY <1>3, <1>4, <1>5, <2>1, <3>2 DEF InHours
  <2>2. CASE c # b
    BY <1>3, <1>4, <1>6, <2>2 DEF HoursKept, RowsOf, Exists, Occupies, InHours
  <2>3. QED
    BY <2>1, <2>2
<1>7. ASSUME NEW x \in Handlers, Creating(x, TRUE)', ~request'[x].edited
      PROVE  FitsInAPeriod(Lesson(request'[x].start), hours'[request'[x].instructor])
  BY <1>3, <1>4, <1>5, <1>7 DEF HoursKept, Creating
<1>8. ASSUME NEW x \in Handlers PROVE Checked(x)'
  <2>1. CASE x = r
    BY <1>4, <1>5, <2>1 DEF Checked
  <2>2. CASE x # r
    <3>1. request'[x] = request[x] /\ Checked(x)
      BY <1>4, <2>2 DEF HoursKept
    <3>2. ASSUME NEW c \in Rows \ {b}
          PROVE  /\ \A i : c \in RowsOf(i) => c \in RowsOf(i)'
                 /\ \A P : InHours(c, P) => InHours(c, P)'
      BY <1>4 DEF RowsOf, Exists, InHours
    <3>3. \A i : RowsOf(i) \subseteq Rows \ {b}
      BY <1>3 DEF RowsOf, Exists
    <3>4. QED
      BY <3>1, <3>2, <3>3 DEF Checked
  <2>3. QED
    BY <2>1, <2>2
<1>9. QED
  BY <1>6, <1>7, <1>8 DEF HoursKept, InHours, Creating

LEMMA ScheduleKeepsHours ==
    ASSUME Core, HoursKept, NEW r \in Handlers, ScheduleCommit(r)
    PROVE  HoursKept'
<1>1. PICK e \in Requests : e = request[r] /\ e.op = "edit"
  BY DEF ScheduleCommit, Core, Shape
<1>2. e.instructor \in Instructors /\ e.periods \in SUBSET WorkPeriods
  BY <1>1, RequestKinds
<1>3. /\ \/ hours' = [hours EXCEPT ![e.instructor] = e.periods]
         \/ hours' = [hours EXCEPT ![e.instructor] = @ \cup e.periods]
      /\ raced' = raced \cup {b \in RowsOf(e.instructor) : Occupies(b) /\ b \notin e.rows}
      /\ UNCHANGED <<status, place>>
  BY <1>1 DEF ScheduleCommit, rowVars
<1>4. /\ e.periods \subseteq hours'[e.instructor]
      /\ hours'[e.instructor] \in SUBSET WorkPeriods
      /\ \A i \in Instructors \ {e.instructor} : hours'[i] = hours[i]
  BY <1>2, <1>3 DEF Core, Shape
<1>5. request'[r] = Idle /\ Idle.op = "idle" /\ Marks
  BY CommitShrinks, CommitKeepsCore DEF Ends, Idle
<1>6. ASSUME NEW x \in Handlers, Creating(x, TRUE)', ~request'[x].edited
      PROVE  FitsInAPeriod(Lesson(request'[x].start), hours'[request'[x].instructor])
  <2>1. /\ Creating(x, TRUE) /\ ~request[x].edited
        /\ request'[x].instructor = request[x].instructor
        /\ request'[x].start = request[x].start
    BY <1>5, <1>6 DEF Marks, Follows, Creating
  <2>2. request[x].instructor \in Instructors
    BY <2>1, RequestKinds DEF Creating, Core, Shape
  <2>3. request[x].instructor # e.instructor
    <3>1. ASSUME request[x].instructor = e.instructor PROVE request'[x].edited
      <4>1. PICK n \in Requests : n = request[x]
        BY DEF Core, Shape
      <4>2. n \in CreateRequest /\ n.validated
        BY <2>1, <4>1 DEF Requests, CreateRequest, Idle, FleetOps, Creating
      <4>3. x # r
        BY <1>1, <2>1 DEF Creating
      <4>4. request'[x] = [n EXCEPT !.edited = n.edited \/ n.op = "edit" \/ n.validated]
        BY <1>1, <2>1, <3>1, <4>1, <4>3 DEF ScheduleCommit, Creating
      <4>5. QED
        BY <4>2, <4>4 DEF CreateRequest
    <3>2. QED
      BY <1>6, <3>1
  <2>4. QED
    BY <1>4, <2>1, <2>2, <2>3 DEF HoursKept
<1>7. ASSUME NEW i \in Instructors, NEW b \in RowsOf(i)', Occupies(b)', b \notin raced'
      PROVE  InHours(b, hours[i])'
  <2>1. b \in RowsOf(i) /\ Occupies(b) /\ b \in Rows /\ Exists(b) /\ b \notin raced
    BY <1>3, <1>7 DEF RowsOf, Exists, Occupies
  <2>2. InHours(b, hours'[i])
    <3>1. CASE i = e.instructor
      <4>1. b \in e.rows
        BY <1>3, <1>7, <2>1, <3>1
      <4>2. InHours(b, e.periods)
        BY <1>1, <4>1 DEF HoursKept, Checked
      <4>3. QED
        BY <1>2, <1>4, <2>1, <3>1, <4>2, MoreHours DEF Core
    <3>2. CASE i # e.instructor
      BY <1>4, <2>1, <3>2 DEF HoursKept
    <3>3. QED
      BY <3>1, <3>2
  <2>3. QED
    BY <1>3, <2>2 DEF InHours
<1>8. ASSUME NEW x \in Handlers PROVE Checked(x)'
  <2>1. CASE request'[x].op = "edit"
    <3>1. /\ request[x].op = "edit"
          /\ request'[x].instructor = request[x].instructor
          /\ request'[x].periods = request[x].periods
          /\ request'[x].rows = request[x].rows
      BY <1>5, <2>1 DEF Marks, Follows
    <3>2. Checked(x)
      BY DEF HoursKept
    <3>3. QED
      BY <1>3, <3>1, <3>2 DEF Checked, RowsOf, Exists, InHours
  <2>2. CASE request'[x].op # "edit"
    BY <2>2 DEF Checked
  <2>3. QED
    BY <2>1, <2>2
<1>9. QED
  BY <1>6, <1>7, <1>8 DEF HoursKept, InHours, Creating

-----------------------------------------------------------------------------
(* The whole inductive invariant. *)

Inv == Core /\ RowsApart /\ Calendar /\ Fleets /\ HoursKept

LEMMA InvInit == Init => Inv
<1> SUFFICES ASSUME Init PROVE Inv
  OBVIOUS
<1>1. Shape /\ Locks /\ Calendar /\ Fleets /\ HoursKept
  BY ShapeInit, LocksInit, CalendarInit, FleetsInit, HoursKeptInit
<1>2. RowsApart
  BY DEF Init, RowsApart, Occupies
<1> QED
  BY <1>1, <1>2 DEF Inv, Core

LEMMA InvStep == Inv /\ [Next]_vars => Inv'
<1> SUFFICES ASSUME Inv, [Next]_vars PROVE Inv'
  OBVIOUS
<1> DEFINE Preserved == RowsApart' /\ Calendar' /\ Fleets' /\ HoursKept'
<1>1. Core'
  BY CoreStep DEF Inv
<1>2. ASSUME Shrinks, Marks, \A i \in Instructors : leaves'[i] \subseteq leaves[i],
             UNCHANGED <<service, workshop, bills, missed, clash>>, HoursKept'
      PROVE  Preserved
  BY <1>2, ShrinkingKeepsRowsApart, ShrinkingKeepsCalendar, ShrinkingKeepsFleets DEF Inv
<1>3. ASSUME NEW r \in Handlers, Reads(r) PROVE Preserved
  <2>1. UNCHANGED <<status, place>>
    BY <1>3, ReadsKeepShape DEF Inv, Core, Tables
  <2>2. RowsApart'
    BY <2>1 DEF Inv, RowsApart, Occupies, Meets
  <2> QED
    BY <1>3, <2>2, ReadsKeepCalendar, ReadsKeepFleets, ReadsKeepHours DEF Inv
<1>4. ASSUME NEW r \in Handlers, NEW b \in Rows, NEW v \in Cars, InsertBooking(r, b, v)
      PROVE  Preserved
  BY <1>4, InsertKeepsRowsApart, InsertKeepsCalendar, InsertKeepsFleets, InsertKeepsHours DEF Inv
<1>5. ASSUME NEW r \in Handlers, ConfirmCommit(r) \/ ScheduleCommit(r)
      PROVE  Preserved
  <2>1. Shrinks /\ Marks
    BY <1>5, CommitShrinks DEF Inv
  <2>2. UNCHANGED <<leaves, service, workshop, bills, missed, clash>>
    BY <1>5 DEF ConfirmCommit, ScheduleCommit, fleetVars, ghosts
  <2>3. HoursKept'
    <3>1. CASE ConfirmCommit(r)
      BY <2>1, <3>1, ShrinkingKeepsHours DEF Inv, ConfirmCommit, ghosts
    <3>2. CASE ScheduleCommit(r)
      BY <3>2, ScheduleKeepsHours DEF Inv
    <3> QED
      BY <1>5, <3>1, <3>2
  <2> QED
    BY <1>2, <2>1, <2>2, <2>3
<1>6. ASSUME NEW r \in Handlers, LeaveCommit(r) PROVE Preserved
  <2>1. Shrinks /\ Marks
    BY <1>6, CommitShrinks DEF Inv
  <2>2. UNCHANGED <<hours, service, workshop, bills, raced, missed, clash>>
    BY <1>6 DEF LeaveCommit, fleetVars, ghosts
  <2> QED
    BY <1>6, <2>1, <2>2, LeaveKeepsCalendar, ShrinkingKeepsRowsApart, ShrinkingKeepsFleets,
       ShrinkingKeepsHours DEF Inv
<1>7. ASSUME NEW r \in Handlers, FleetCommit(r) PROVE Preserved
  <2>1. Shrinks /\ Marks
    BY <1>7, CommitShrinks DEF Inv
  <2>2. UNCHANGED <<leaves, hours, raced>>
    BY <1>7 DEF FleetCommit
  <2> QED
    BY <1>7, <2>1, <2>2, FleetKeepsFleets, ShrinkingKeepsRowsApart, ShrinkingKeepsCalendar,
       ShrinkingKeepsHours DEF Inv
<1>8. ASSUME NEW b \in Rows, HoldLapses(b) \/ \E to \in {"CANCELLED", "SETTLED"} : Release(b, to)
      PROVE  Preserved
  <2>1. Shrinks /\ Marks
    BY <1>8, OtherStepsShrink DEF Inv
  <2>2. UNCHANGED <<leaves, hours, service, workshop, bills, raced, missed, clash>>
    BY <1>8 DEF HoldLapses, Release, fleetVars, ghosts
  <2> QED
    BY <1>2, <2>1, <2>2, ShrinkingKeepsHours DEF Inv
<1>9. ASSUME NEW i \in Instructors, NEW l \in leaves[i], CancelLeave(i, l)
      PROVE  Preserved
  <2>1. Shrinks /\ Marks
    BY <1>9, OtherStepsShrink DEF Inv
  <2>2. leaves' = [leaves EXCEPT ![i] = @ \ {l}]
    BY <1>9 DEF CancelLeave
  <2>3. \A j \in Instructors : leaves'[j] \subseteq leaves[j]
    BY <2>2 DEF Inv, Core, Shape
  <2>4. UNCHANGED <<hours, service, workshop, bills, raced, missed, clash>>
    BY <1>9 DEF CancelLeave, fleetVars, ghosts
  <2> QED
    BY <1>2, <2>1, <2>3, <2>4, ShrinkingKeepsHours DEF Inv
<1>10. ASSUME UNCHANGED vars PROVE Preserved
  <2>1. Shrinks /\ Marks
    BY <1>10, OtherStepsShrink DEF Inv
  <2>2. UNCHANGED <<leaves, hours, service, workshop, bills, raced, missed, clash>>
    BY <1>10 DEF vars, fleetVars, ghosts
  <2> QED
    BY <1>2, <2>1, <2>2, ShrinkingKeepsHours DEF Inv
<1>11. ASSUME Steps PROVE Preserved
  <2>1. CASE \E r \in Handlers : \/ Reads(r) \/ ConfirmCommit(r) \/ LeaveCommit(r)
                               \/ ScheduleCommit(r) \/ FleetCommit(r)
    BY <1>3, <1>5, <1>6, <1>7, <2>1
  <2>2. CASE \E r \in Handlers, b \in Rows, v \in Cars : InsertBooking(r, b, v)
    BY <1>4, <2>2
  <2>3. CASE \E b \in Rows : HoldLapses(b) \/ \E to \in {"CANCELLED", "SETTLED"} : Release(b, to)
    BY <1>8, <2>3
  <2>4. CASE \E i \in Instructors : \E l \in leaves[i] : CancelLeave(i, l)
    BY <1>9, <2>4
  <2> QED
    BY <1>11, <2>1, <2>2, <2>3, <2>4 DEF Steps
<1> QED
  BY <1>1, <1>10, <1>11, NextIsAStep DEF Inv

LEMMA Invariance == Spec => []Inv
BY InvInit, InvStep, PTL DEF Spec

-----------------------------------------------------------------------------
(* TypeOK: rows, hours and the fleet have their types, and no two leaves of *)
(* an instructor overlap.                                                   *)
THEOREM TypeCorrect == Spec => []TypeOK
<1>1. Inv => TypeOK
  <2> SUFFICES ASSUME Inv PROVE TypeOK
    OBVIOUS
  <2>1. \A i \in Instructors : \A p \in hours[i] : p.from < p.to
    BY DEF Inv, Core, Shape, WorkPeriods
  <2>2. \A i \in Instructors : \A l, m \in leaves[i] : l # m => ~Overlaps(l, m)
    BY DEF Inv, Calendar, LeavesApart
  <2> QED
    BY <2>1, <2>2 DEF Inv, Core, Shape, TypeOK, Places, ServiceStatuses
<1> QED
  BY <1>1, Invariance, PTL

(* Two lessons never share an instructor or a vehicle of the school.        *)
THEOREM LessonsNeverCollide == Spec => []OneLessonPerSlot
<1>1. Inv => OneLessonPerSlot
  BY DEF Inv, RowsApart, OneLessonPerSlot, Occupies
<1> QED
  BY <1>1, Invariance, PTL

(* A slot that a creation validated under the instructor's lock is free of  *)
(* leaves and of live rows until it inserts.                                *)
THEOREM ValidationHolds == Spec => []ValidatedSlotIsFree
<1>1. Inv => ValidatedSlotIsFree
  BY DEF Inv, Calendar
<1> QED
  BY <1>1, Invariance, PTL

(* An instructor on leave has no lesson, but for those whose payment was    *)
(* being recorded when their hold lapsed.                                   *)
THEOREM LeavesAreFree == Spec => []LeaveHasNoLessons
<1>1. Inv => LeaveHasNoLessons
  BY DEF Inv, Calendar
<1> QED
  BY <1>1, Invariance, PTL

(* A vehicle out of service carries only the lessons its withdrawal did not *)
(* see, unless two requests of the fleet office overlapped.                 *)
THEOREM WithdrawalsHold == Spec => []WithdrawnCarsCarryNoLessons
<1>1. Inv => WithdrawnCarsCarryNoLessons
  BY DEF Inv, Fleets, Withdrawn, WithdrawnCarsCarryNoLessons, Occupies
<1> QED
  BY <1>1, Invariance, PTL

(* A vehicle is in the workshop exactly while one maintenance of it is      *)
(* open, each is billed once, and a vehicle in service is offered, unless   *)
(* two requests of the fleet office overlapped.                             *)
THEOREM MaintenanceHolds == Spec => []MaintenanceMatchesStatus
<1>1. Inv => MaintenanceMatchesStatus
  <2> SUFFICES ASSUME Inv, NEW v \in Vehicles \ clash
               PROVE  /\ service[v] = "INACTIVE" <=> OpenPeriods(v) # {}
                      /\ Cardinality(OpenPeriods(v)) <= 1
                      /\ \A k \in PeriodIds : \/ bills[v][k] = 0
                                              \/ bills[v][k] = 1 /\ workshop[v][k] = "CLOSED"
                      /\ service[v] = "ACTIVE" =>
                            \A t \in Starts :
                               (\A b \in RowsWith(v) : Reserving(b) => ~Meets(b, Lesson(t)))
                                  => HasVehicle(Lesson(t))
    BY DEF MaintenanceMatchesStatus
  <2>1. Maintained(v)
    BY DEF Inv, Fleets
  <2>2. Cardinality(OpenPeriods(v)) <= 1
    <3>1. CASE OpenPeriods(v) = {}
      BY <3>1, FS_EmptySet
    <3>2. ASSUME NEW k \in OpenPeriods(v) PROVE Cardinality(OpenPeriods(v)) <= 1
      <4>1. OpenPeriods(v) = {k}
        BY <2>1 DEF Maintained
      <4> QED
        BY <4>1, FS_Singleton
    <3> QED
      BY <3>1, <3>2
  <2>3. service[v] = "ACTIVE" => OpenPeriods(v) = {}
    BY <2>1 DEF Maintained
  <2> QED
    BY <2>1, <2>2, <2>3 DEF Maintained, HasVehicle, ActiveVehicles
<1> QED
  BY <1>1, Invariance, PTL

(* Lessons stay within the working hours whatever edits race, but for those *)
(* an edit could not see and those that end at midnight.                    *)
THEOREM LessonsKeepHours == Spec => []LessonsFitSchedule
<1>1. Inv => LessonsFitSchedule
  BY DEF Inv, HoursKept, InHours, LessonsFitSchedule, Reserving, LiveHold, Occupies
<1> QED
  BY <1>1, Invariance, PTL

-----------------------------------------------------------------------------
(* The refinement: each stage is a step of the timetable, or none. *)

(* The hold of a row runs out after the row is there; the leave that a      *)
(* request replaces is there until it commits.                              *)
FreshRows == \A b \in Rows : ~Exists(b) => ~lapsed[b]

ReplacedStands ==
    \A r \in Handlers : request[r].op = "leave" =>
        Replaceable(request[r].instructor, request[r].replaces)

Plans == FreshRows /\ ReplacedStands

LEMMA PlansInit == Init => Plans
BY DEF Init, Plans, FreshRows, ReplacedStands, Idle

LEMMA MarkedLeave ==
    ASSUME Marks, NEW x \in Handlers, request'[x].op = "leave"
    PROVE  request'[x] = request[x]
BY DEF Marks, Follows, Idle

LEMMA QuietPlans ==
    ASSUME Plans, Marks, UNCHANGED leaves,
           \A b \in Rows : Exists(b) => Exists(b)',
           \A b \in Rows : lapsed'[b] = lapsed[b] \/ Exists(b)
    PROVE  Plans'
<1>1. FreshRows'
  BY DEF Plans, FreshRows
<1>2. ReplacedStands'
  BY MarkedLeave DEF Plans, ReplacedStands, Replaceable
<1>3. QED
  BY <1>1, <1>2 DEF Plans

LEMMA ReadsKeepPlans ==
    ASSUME Core, Plans, NEW r \in Handlers, Reads(r)
    PROVE  Plans'
<1>1. PICK q \in Requests : WellRead(r, q) /\ request' = [request EXCEPT ![r] = q]
  BY ReadsKeepShape DEF Core
<1>2. UNCHANGED <<status, lapsed, leaves>>
  BY ReadsKeepShape DEF Tables, Core
<1>3. request'[r] = q /\ \A c \in Handlers \ {r} : request'[c] = request[c]
  BY <1>1 DEF Core, Shape
<1>4. q.op = "leave" => Replaceable(q.instructor, q.replaces)
  BY <1>1 DEF WellRead, Idle, FleetOps
<1>5. ReplacedStands'
  BY <1>2, <1>3, <1>4 DEF Plans, ReplacedStands, Replaceable
<1>6. FreshRows'
  BY <1>2 DEF Plans, FreshRows, Exists
<1>7. QED
  BY <1>5, <1>6 DEF Plans

(* The instructor's lock keeps any other leave away from what one replaces. *)
LEMMA LeaveKeepsPlans ==
    ASSUME Core, Plans, NEW r \in Handlers, LeaveCommit(r)
    PROVE  Plans'
<1>1. PICK q \in Requests : q = request[r] /\ q.op = "leave"
  BY DEF LeaveCommit, Core, Shape
<1>2. /\ leaves' = [leaves EXCEPT ![q.instructor] = (@ \ q.replaces) \cup {q.leave}]
      /\ request' = [request EXCEPT ![r] = Idle]
      /\ UNCHANGED lapsed
  BY <1>1 DEF LeaveCommit, Finish, Continue
<1>3. Shrinks
  BY CommitShrinks
<1>4. ASSUME NEW x \in Handlers, request'[x].op = "leave"
      PROVE  Replaceable(request[x].instructor, request[x].replaces)'
  <2>1. x # r /\ request'[x] = request[x]
    BY <1>2, <1>4 DEF Core, Shape, Idle
  <2>2. request[x].instructor \in Instructors
    BY <1>4, <2>1, RequestKinds DEF Core, Shape
  <2>3. request[x].instructor # q.instructor
    BY <1>1, <1>4, <2>1, <2>2 DEF Core, Locks, HoldsInstructor
  <2>4. leaves'[request[x].instructor] = leaves[request[x].instructor]
    BY <1>2, <2>2, <2>3 DEF Core, Shape
  <2>5. QED
    BY <1>4, <2>1, <2>4 DEF Plans, ReplacedStands, Replaceable
<1>5. FreshRows'
  BY <1>2, <1>3 DEF Plans, FreshRows, Shrinks
<1>6. QED
  BY <1>4, <1>5 DEF Plans, ReplacedStands

(* So does the lock on the leave itself. *)
LEMMA CancelLeaveKeepsPlans ==
    ASSUME Core, Plans, NEW i \in Instructors, NEW l \in leaves[i], CancelLeave(i, l)
    PROVE  Plans'
<1>1. /\ leaves' = [leaves EXCEPT ![i] = @ \ {l}]
      /\ UNCHANGED <<status, lapsed, request>>
      /\ LeaveFree(i, l)
  BY DEF CancelLeave, rowVars, requestVars
<1>2. ASSUME NEW x \in Handlers, request[x].op = "leave"
      PROVE  Replaceable(request[x].instructor, request[x].replaces)'
  <2>1. Replaceable(request[x].instructor, request[x].replaces)
    BY <1>2 DEF Plans, ReplacedStands
  <2>2. request[x].instructor \in Instructors
    BY <1>2, RequestKinds DEF Core, Shape
  <2>3. CASE request[x].instructor # i
    BY <1>1, <2>1, <2>2, <2>3 DEF Core, Shape, Replaceable
  <2>4. CASE request[x].instructor = i
    <3>1. request[x].replaces # {l}
      BY <1>1, <1>2, <2>4 DEF LeaveFree
    <3>2. leaves'[i] = leaves[i] \ {l}
      BY <1>1 DEF Core, Shape
    <3>3. QED
      BY <1>1, <2>1, <2>4, <3>1, <3>2 DEF Replaceable
  <2>5. QED
    BY <2>3, <2>4
<1>3. QED
  BY <1>1, <1>2 DEF Plans, FreshRows, Exists, ReplacedStands

LEMMA PlansStep == Inv /\ Plans /\ [Next]_vars => Plans'
<1> SUFFICES ASSUME Inv, Plans, [Next]_vars PROVE Plans'
  OBVIOUS
<1>1. ASSUME Shrinks, Marks, UNCHANGED <<lapsed, leaves>> PROVE Plans'
  BY <1>1, QuietPlans DEF Shrinks
<1>2. ASSUME NEW r \in Handlers, Reads(r) PROVE Plans'
  BY <1>2, ReadsKeepPlans DEF Inv
<1>3. ASSUME NEW r \in Handlers, NEW b \in Rows, NEW v \in Cars, InsertBooking(r, b, v)
      PROVE  Plans'
  <2>1. Marks
    BY <1>3, InsertKeepsShape DEF Inv, Core, Ends, Marks
  <2>2. UNCHANGED <<lapsed, leaves>> /\ status' = [status EXCEPT ![b] = request[r].as]
        /\ status[b] = "NONE"
    BY <1>3 DEF InsertBooking
  <2>3. \A c \in Rows : Exists(c) => Exists(c)'
    BY <2>2 DEF Exists, Inv, Core, Shape
  <2>4. QED
    BY <2>1, <2>2, <2>3, QuietPlans
<1>4. ASSUME NEW r \in Handlers, ConfirmCommit(r) \/ ScheduleCommit(r) \/ FleetCommit(r)
      PROVE  Plans'
  <2>1. Shrinks /\ Marks
    BY <1>4, CommitShrinks DEF Inv
  <2>2. QED
    BY <1>1, <1>4, <2>1 DEF ConfirmCommit, ScheduleCommit, FleetCommit, rowVars
<1>5. ASSUME NEW r \in Handlers, LeaveCommit(r) PROVE Plans'
  BY <1>5, LeaveKeepsPlans DEF Inv
<1>6. ASSUME NEW b \in Rows, HoldLapses(b) PROVE Plans'
  <2>1. Shrinks /\ Marks
    BY <1>6, OtherStepsShrink DEF Inv
  <2>2. Exists(b) /\ UNCHANGED leaves /\ \A c \in Rows \ {b} : lapsed'[c] = lapsed[c]
    BY <1>6 DEF HoldLapses, LiveHold, Exists, Inv, Core, Shape
  <2>3. QED
    BY <2>1, <2>2, QuietPlans DEF Shrinks
<1>7. ASSUME NEW b \in Rows, NEW to \in {"CANCELLED", "SETTLED"}, Release(b, to)
      PROVE  Plans'
  <2>1. Shrinks /\ Marks
    BY <1>7, OtherStepsShrink DEF Inv
  <2>2. QED
    BY <1>1, <1>7, <2>1 DEF Release
<1>8. ASSUME NEW i \in Instructors, NEW l \in leaves[i], CancelLeave(i, l) PROVE Plans'
  BY <1>8, CancelLeaveKeepsPlans DEF Inv
<1>9. CASE UNCHANGED vars
  <2>1. Shrinks /\ Marks
    BY <1>9, OtherStepsShrink DEF Inv
  <2>2. QED
    BY <1>1, <1>9, <2>1 DEF vars, rowVars
<1>10. QED
  BY <1>2, <1>3, <1>4, <1>5, <1>6, <1>7, <1>8, <1>9, NextIsAStep DEF Steps

(* A step that inserts no row claims nothing.                               *)
LEMMA ShrinkingClaims ==
    ASSUME Core, Core', Shrinks
    PROVE  Promise!NoNewClaim
<1>1. ASSUME NEW c \in Claims'
      PROVE  c \in Claims \/ (c.late /\ [c EXCEPT !.late = FALSE] \in Claims)
  <2>1. PICK b \in Rows : Occupies(b)' /\ c = ClaimOf(b)'
    BY DEF Claims
  <2>2. ClaimOf(b) \in Claims
    BY <2>1 DEF Claims, Shrinks
  <2>3. /\ lapsed[b] \in BOOLEAN /\ lapsed'[b] \in BOOLEAN
        /\ lapsed[b] => lapsed'[b]
        /\ place'[b] = place[b]
    BY DEF Core, Shape, Shrinks
  <2>4. CASE lapsed'[b] = lapsed[b]
    <3>1. c = ClaimOf(b)
      BY <2>1, <2>3, <2>4, Zenon DEF ClaimOf
    <3>2. QED
      BY <2>2, <3>1
  <2>5. CASE lapsed'[b] # lapsed[b]
    <3>1. lapsed'[b] = TRUE /\ lapsed[b] = FALSE
      BY <2>3, <2>5
    <3>2. c = [instructor |-> place[b].instructor, vehicle |-> place[b].vehicle,
               slot |-> place[b].slot, late |-> lapsed'[b]]
      BY <2>1, <2>3, Zenon DEF ClaimOf
    <3>3. ClaimOf(b) = [instructor |-> place[b].instructor, vehicle |-> place[b].vehicle,
                        slot |-> place[b].slot, late |-> lapsed[b]]
      BY DEF ClaimOf
    <3>4. [c EXCEPT !.late = lapsed[b]] = ClaimOf(b)
      BY <3>2, <3>3, Z3
    <3>5. [c EXCEPT !.late = FALSE] \in Claims
      BY <2>2, <3>1, <3>4, Zenon
    <3>6. c.late
      BY <3>1, <3>2
    <3>7. QED
      BY <3>5, <3>6
  <2>6. QED
    BY <2>4, <2>5
<1>2. QED
  BY <1>1 DEF Promise!NoNewClaim

LEMMA InsertingClaims ==
    ASSUME Inv, Plans, NEW r \in Handlers, NEW b \in Rows, NEW v \in Cars,
           InsertBooking(r, b, v)
    PROVE  \E c \in Claims' : Promise!Claim(c)
<1> USE SlotRulesAssumption
<1>1. PICK q \in Requests : q = request[r] /\ q.op = "create" /\ q.validated
  BY DEF InsertBooking, Creating, Inv, Core, Shape
<1>2. q.instructor \in Instructors /\ q.start \in Starts
      /\ q.as \in {"BOOKED", "PENDING_PAYMENT"}
  BY <1>1, RequestKinds
<1> DEFINE c == [instructor |-> q.instructor, vehicle |-> v, slot |-> Lesson(q.start),
                 late |-> FALSE]
<1>3. /\ status[b] = "NONE"
      /\ status' = [status EXCEPT ![b] = q.as]
      /\ place' = [place EXCEPT ![b] = Place(q.instructor, v, q.start)]
      /\ UNCHANGED <<lapsed, leaves>>
      /\ ~InstructorExcluded(q.instructor, Lesson(q.start))
      /\ ~VehicleExcluded(v, Lesson(q.start))
  BY <1>1 DEF InsertBooking
<1>4. /\ \A d \in Rows \ {b} : place'[d] = place[d] /\ status'[d] = status[d]
      /\ place'[b] = Place(q.instructor, v, q.start)
      /\ status'[b] = q.as
  BY <1>3 DEF Inv, Core, Shape
<1>5. lapsed'[b] = FALSE
  BY <1>3 DEF Plans, FreshRows, Exists, Inv, Core, Shape
<1>6. ClaimOf(b)' = c
  <2>1. ClaimOf(b)' = [instructor |-> place'[b].instructor, vehicle |-> place'[b].vehicle,
                       slot |-> place'[b].slot, late |-> lapsed'[b]]
    BY DEF ClaimOf
  <2>2. /\ place'[b].instructor = q.instructor /\ place'[b].vehicle = v
        /\ place'[b].slot = Lesson(q.start)
    BY <1>4 DEF Place
  <2>3. QED
    BY <1>5, <2>1, <2>2, Zenon
<1>7. /\ Occupies(b)' /\ ~Occupies(b)
      /\ \A d \in Rows \ {b} : /\ Occupies(d)' <=> Occupies(d)
                               /\ ClaimOf(d)' = ClaimOf(d)
  BY <1>2, <1>3, <1>4 DEF Occupies, ClaimOf
<1> HIDE DEF c
<1>8. Claims' = Claims \cup {c}
  BY <1>6, <1>7 DEF Claims
<1>9. /\ c.instructor = q.instructor /\ c.vehicle = v
      /\ c.slot = Lesson(q.start) /\ c.late = FALSE
  BY DEF c
<1>10. ASSUME NEW d \in Claims, c.instructor = d.instructor \/ (c.vehicle = d.vehicle /\ c.vehicle # NoVehicle)
       PROVE  ~Overlaps(c.slot, d.slot)
  <2>1. PICK e \in Rows : Occupies(e) /\ d = ClaimOf(e)
    BY DEF Claims
  <2>2. /\ d.instructor = place[e].instructor /\ d.vehicle = place[e].vehicle
        /\ d.slot = place[e].slot
    BY <2>1 DEF ClaimOf
  <2>3. Exists(e) /\ place[e] \in Places
    BY <2>1 DEF Occupies, Exists, Inv, Core, Shape
  <2>4. ~Overlaps(d.slot, c.slot)
    BY <1>3, <1>9, <1>10, <2>1, <2>2, <2>3
       DEF InstructorExcluded, VehicleExcluded, RowsOf, RowsWith, Meets
  <2>5. PICK t \in Starts : d.slot = Lesson(t)
    BY <2>2, <2>3 DEF Places, Place
  <2>6. t \in Nat /\ q.start \in Nat
    BY <1>2, StartsInDay
  <2>7. QED
    BY <1>9, <2>4, <2>5, <2>6 DEF Overlaps, Lesson, OpenEnd
<1>11. \A l \in leaves[c.instructor] : ~Overlaps(c.slot, l)
  BY <1>1, <1>9 DEF Inv, Calendar, ValidatedSlotIsFree, Creating
<1>12. \A d \in Claims : ~Promise!Clash(c, d)
  BY <1>10 DEF Promise!Clash, Promise!SameResource, Promise!Overlaps, Promise!OpenEnd,
     Overlaps, OpenEnd
<1>13. \A l \in leaves[c.instructor] : ~Promise!Overlaps(c.slot, l)
  BY <1>11 DEF Promise!Overlaps, Promise!OpenEnd, Overlaps, OpenEnd
<1>14. Promise!Claim(c)
  BY <1>2, <1>3, <1>8, <1>9, <1>12, <1>13 DEF Promise!Claim
<1>15. QED
  BY <1>8, <1>14

LEMMA LeaveIsTaken ==
    ASSUME Inv, Plans, Core', NEW r \in Handlers, LeaveCommit(r)
    PROVE  Promise!Next
<1>1. PICK q \in Requests : q = request[r] /\ q.op = "leave"
  BY DEF LeaveCommit, Inv, Core, Shape
<1>2. q.instructor \in Instructors /\ q.leave \in Absences
  BY <1>1, RequestKinds
<1>3. /\ leaves' = [leaves EXCEPT ![q.instructor] = (@ \ q.replaces) \cup {q.leave}]
      /\ status' = [b \in Rows |-> IF b \in q.rows THEN "CANCELLED" ELSE status[b]]
      /\ UNCHANGED <<place, lapsed>>
  BY <1>1 DEF LeaveCommit, CancelAll
<1>4. Promise!NoNewClaim
  BY CommitShrinks, ShrinkingClaims DEF Inv
<1>5. ASSUME NEW c \in Claims', c.instructor = q.instructor, Overlaps(c.slot, q.leave)
      PROVE  c.late
  <2>1. PICK b \in Rows : Occupies(b)' /\ c = ClaimOf(b)'
    BY DEF Claims
  <2>2. /\ place[b].instructor = q.instructor /\ Meets(b, q.leave) /\ c.late = lapsed[b]
    BY <1>3, <1>5, <2>1 DEF ClaimOf, Meets
  <2>3. b \notin q.rows /\ Occupies(b)
    BY <1>3, <2>1 DEF Occupies
  <2>4. b \in RowsOf(q.instructor)
    BY <2>2, <2>3 DEF RowsOf, Exists, Occupies
  <2>5. QED
    BY <1>1, <2>2, <2>3, <2>4 DEF Inv, Calendar, LeaveMeets
<1>6. \A l \in leaves[q.instructor] \ q.replaces : ~Overlaps(q.leave, l)
  BY <1>1 DEF Inv, Calendar, LeaveMeets
<1>7. Promise!TakeLeave(q.instructor, q.replaces, q.leave)
  BY <1>3, <1>4, <1>5, <1>6
     DEF Promise!TakeLeave, Promise!Overlaps, Promise!OpenEnd, Overlaps, OpenEnd
<1>8. q.replaces \in {{}} \cup {{l} : l \in leaves[q.instructor]}
  BY <1>1 DEF Plans, ReplacedStands, Replaceable
<1>9. QED
  BY <1>2, <1>7, <1>8 DEF Promise!Next

LEMMA TimetableStep == Inv /\ Plans /\ [Next]_vars => [Promise!Next]_(Promise!vars)
<1> SUFFICES ASSUME Inv, Plans, [Next]_vars PROVE [Promise!Next]_(Promise!vars)
  OBVIOUS
<1>1. Core'
  BY CoreStep DEF Inv
<1>2. ASSUME Shrinks, UNCHANGED leaves PROVE Promise!Next
  BY <1>1, <1>2, ShrinkingClaims DEF Inv, Promise!Next, Promise!LetGo
<1>3. ASSUME UNCHANGED <<status, place, lapsed, leaves>> PROVE UNCHANGED Promise!vars
  BY <1>3 DEF Promise!vars, Claims, ClaimOf, Occupies
<1>4. ASSUME NEW r \in Handlers, Reads(r) PROVE UNCHANGED Promise!vars
  BY <1>3, <1>4, ReadsKeepShape DEF Tables, Inv, Core
<1>5. ASSUME NEW r \in Handlers, NEW b \in Rows, NEW v \in Cars, InsertBooking(r, b, v)
      PROVE  Promise!Next
  BY <1>5, InsertingClaims DEF Promise!Next
<1>6. ASSUME NEW r \in Handlers, ConfirmCommit(r) \/ ScheduleCommit(r) \/ FleetCommit(r)
      PROVE  Promise!Next
  <2>1. Shrinks
    BY <1>6, CommitShrinks DEF Inv
  <2>2. QED
    BY <1>2, <1>6, <2>1 DEF ConfirmCommit, ScheduleCommit, FleetCommit
<1>7. ASSUME NEW r \in Handlers, LeaveCommit(r) PROVE Promise!Next
  BY <1>1, <1>7, LeaveIsTaken
<1>8. ASSUME NEW b \in Rows, HoldLapses(b) \/ \E to \in {"CANCELLED", "SETTLED"} : Release(b, to)
      PROVE  Promise!Next
  <2>1. Shrinks
    BY <1>8, OtherStepsShrink DEF Inv
  <2>2. QED
    BY <1>2, <1>8, <2>1 DEF HoldLapses, Release
<1>9. ASSUME NEW i \in Instructors, NEW l \in leaves[i], CancelLeave(i, l) PROVE Promise!Next
  <2>1. leaves' = [leaves EXCEPT ![i] = @ \ {l}] /\ UNCHANGED <<status, place, lapsed>>
    BY <1>9 DEF CancelLeave, rowVars
  <2>2. Claims' = Claims
    BY <2>1 DEF Claims, ClaimOf, Occupies
  <2>3. Promise!GiveUpLeave(i, l)
    BY <2>1, <2>2 DEF Promise!GiveUpLeave
  <2>4. QED
    BY <2>3 DEF Promise!Next
<1>10. CASE UNCHANGED vars
  BY <1>3, <1>10 DEF vars, rowVars
<1>11. QED
  BY <1>4, <1>5, <1>6, <1>7, <1>8, <1>9, <1>10, NextIsAStep DEF Steps

(* Bookings, payments, sweeps, leaves, edits and the fleet's workshop, each *)
(* in stages that run among one another, implement the timetable: a lesson  *)
(* is claimed in one step, clear of every claim and leave of that moment,   *)
(* and a leave is taken together with the lessons it displaces.             *)
THEOREM TimetableKept == Spec => TimetableIsKept
<1>1. Init => Promise!Init
  BY DEF Init, Promise!Init, Claims, Occupies
<1>2. Inv /\ Plans /\ [Next]_vars => (Inv /\ Plans)'
  BY InvStep, PlansStep
<1>3. Init => Inv /\ Plans
  BY InvInit, PlansInit
<1>4. QED
  BY <1>1, <1>2, <1>3, TimetableStep, PTL DEF Spec, Promise!Spec, TimetableIsKept
=============================================================================
