---------------------------- MODULE MCFieldVisits ----------------------------
EXTENDS FieldVisits, TLC
MCSymmetry == Permutations(FieldRequests) \cup Permutations(Assignments) \cup Permutations(Pharmacies) \cup Permutations(Visitors)
=============================================================================
