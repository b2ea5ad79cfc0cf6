----------------------------- MODULE Schedules ------------------------------
(***************************************************************************)
(* What the lifecycle services and the jobs promise of every project,      *)
(* without views, requests, runs, lists and workers: at any moment it is   *)
(* edited within limits, or one of its schedules is carried out, which     *)
(* happens when the schedule is due, together with its audit row, and once *)
(* in the life of the project.                                             *)
(*                                                                         *)
(* Lifecycle implements this specification.                                *)
(***************************************************************************)
EXTENDS Naturals

CONSTANTS
    Project,    \* the projects
    MaxTime,    \* bound: the clock stops here
    None        \* an empty time

VARIABLES
    row,        \* project -> its row
    announced,  \* the audit rows of the schedules carried out
    clock

scheduleVars == <<row, announced, clock>>

Row == [public: BOOLEAN, open: BOOLEAN, published: BOOLEAN,
        publishAt: (1..MaxTime) \cup {None}, closeAt: (1..MaxTime) \cup {None},
        deleted: BOOLEAN]

Unscheduled(p) == p.publishAt = None /\ p.closeAt = None

SchedulesInit ==
    /\ row \in [Project -> {p \in Row : Unscheduled(p) /\ p.open /\ ~p.published /\ ~p.deleted}]
    /\ announced = {}
    /\ clock = 0

InOrder(p) == (p.publishAt # None /\ p.closeAt # None) => p.publishAt < p.closeAt

(* By hand nothing is marked as published, or taken back from deletion, or *)
(* scheduled out of order; to open or close a project by hand withdraws    *)
(* its close schedule, and a deleted one keeps its visibility.             *)
Allowed(p, new) ==
    /\ new.published = p.published
    /\ InOrder(new)
    /\ new.open # p.open => new.closeAt = None
    /\ p.deleted => new.deleted /\ new.public = p.public

Edit(i) ==
    /\ \E new \in Row : Allowed(row[i], new) /\ row' = [row EXCEPT ![i] = new]
    /\ UNCHANGED <<announced, clock>>

Announce(i, kind) ==
    /\ <<i, kind>> \notin announced
    /\ announced' = announced \cup {<<i, kind>>}

IsPast(time) == time # None /\ time <= clock

Publish(i) ==
    /\ IsPast(row[i].publishAt)
    /\ ~row[i].public
    /\ ~row[i].published
    /\ row' = [row EXCEPT ![i].public = TRUE, ![i].published = TRUE, ![i].publishAt = None]
    /\ Announce(i, "published")
    /\ UNCHANGED clock

AutoClose(i) ==
    /\ IsPast(row[i].closeAt)
    /\ row[i].open
    /\ row' = [row EXCEPT ![i].open = FALSE, ![i].closeAt = None]
    /\ Announce(i, "closed")
    /\ UNCHANGED clock

PassTime ==
    /\ clock < MaxTime
    /\ clock' = clock + 1
    /\ UNCHANGED <<row, announced>>

SchedulesNext ==
    \/ PassTime
    \/ \E i \in Project : Edit(i) \/ Publish(i) \/ AutoClose(i)

SchedulesSpec == SchedulesInit /\ [][SchedulesNext]_scheduleVars
=============================================================================
