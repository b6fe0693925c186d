----------------------------- MODULE MCFieldDay -----------------------------
(***************************************************************************)
(* A working day: ticks of the import worker, requests on the rows of a    *)
(* plan's day, visits and changes of territory assignments, decisions on   *)
(* reported pharmacies, links for invitations and passwords, and the live  *)
(* bus. They write different tables: a behaviour is one of a single part,  *)
(* chosen at the start, and in each several actors write the same rows.    *)
(* The other parts stay as they are when nothing has been asked of them.   *)
(***************************************************************************)
EXTENDS ImportWorker, FieldVisits, PlanDay, LiveBus, ReviewQueue, InvitationLinks, TLC

VARIABLE part

(* Parts that do not run; no import is registered.                         *)
NoImports == garbled = {} /\ punctual /\ kind \in [Jobs -> {[c \in 1..Chunks |-> "clean"]}]

NoDay ==
  /\ row \in [Rows -> {NoRow}]
  /\ inForce = FALSE
  /\ req \in [Requests -> {Ended("ready")}]

NoVisits ==
  /\ assignment \in [Assignments -> {[status |-> "unassigned", rep |-> NoVisitor]}]
  /\ stop \in [AssignmentStops -> {"none"}]
  /\ visits = {} /\ verif = {} /\ sub \in [FieldRequests -> {Ready}]

NoBus == BusInit /\ hasOutbox

NoLinks == LinksInit /\ account \in [Users -> {[active |-> FALSE, mustChange |-> TRUE]}]

MCInit ==
  /\ Init /\ ReviewInit
  /\ \/ part = "imports" /\ NoDay /\ NoVisits /\ NoBus /\ NoLinks
     \/ part = "day"     /\ NoImports /\ DayInit /\ NoVisits /\ NoBus /\ NoLinks
     \/ part = "visits"  /\ NoImports /\ NoDay /\ FieldInit /\ NoBus /\ NoLinks
     \/ part = "bus"     /\ NoImports /\ NoDay /\ NoVisits /\ BusInit /\ NoLinks
     \/ part = "review"  /\ NoImports /\ NoDay /\ NoVisits /\ NoBus /\ NoLinks
     \/ part = "links"   /\ NoImports /\ NoDay /\ NoVisits /\ NoBus /\ LinksInit

MCNext ==
  \/ part = "imports" /\ Next
                       /\ UNCHANGED <<part, dayVars, fieldVars, liveVars, reviewVars, linkVars>>
  \/ part = "day"     /\ DayNext
                       /\ UNCHANGED <<part, vars, fieldVars, liveVars, reviewVars, linkVars>>
  \/ part = "visits"  /\ FieldNext
                       /\ UNCHANGED <<part, vars, dayVars, liveVars, reviewVars, linkVars>>
  \/ part = "bus"     /\ BusNext
                       /\ UNCHANGED <<part, vars, dayVars, fieldVars, reviewVars, linkVars>>
  \/ part = "review"  /\ ReviewNext
                       /\ UNCHANGED <<part, vars, dayVars, fieldVars, liveVars, linkVars>>
  \/ part = "links"   /\ LinksNext
                       /\ UNCHANGED <<part, vars, dayVars, fieldVars, liveVars, reviewVars>>

MCSpec == MCInit /\ [][MCNext]_<<part, vars, dayVars, fieldVars, liveVars, reviewVars, linkVars>>

(* Which of several equal actors it is makes no difference.                *)
MCSymmetry ==
  Permutations(Workers) \cup Permutations(Requests) \cup Permutations(Assignments)

=============================================================================
