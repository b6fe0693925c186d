-------------------------- MODULE InvitationLinks --------------------------
(***************************************************************************)
(* The links of user_invitations: createInvitation and requestPasswordReset *)
(* issue one, completeActivation and completePasswordReset use it.         *)
(*                                                                         *)
(* Issuing is a row of statements without a transaction: the user is read, *)
(* the user's outstanding links for the same purpose are superseded, the   *)
(* new one is inserted, mailed, and an invitation's delivery is recorded.  *)
(* The process may die between any two. Using a link reads it, hashes the  *)
(* new password and only then, in a transaction, changes the account and   *)
(* marks the link. A token is told from others by its position in links.   *)
(***************************************************************************)
EXTENDS Integers, Sequences

CONSTANTS
  Users,
  Issues,    \* calls that issue a link, each made once
  Uses,      \* calls that use one
  MaxLinks   \* bound on the links issued

Purposes == {"invitation", "password_reset"}

VARIABLES
  links,    \* rows, in the order they were inserted
  account,  \* is_active and must_change_password of the users
  issue,    \* calls under way
  use,
  raced     \* pairs of calls that issued the same link at once

linkVars == <<links, account, issue, use, raced>>

\* by, uses and shared are history: the call that issued the link, how often a
\* password was set with it, and whether two calls were using it at once.
Link == [by : Issues, user : Users, purpose : Purposes, used : BOOLEAN, expired : BOOLEAN, sent : BOOLEAN,
         error : {"none", "superseded", "failed"}, uses : Nat, shared : BOOLEAN]

Owner(l) == <<links[l].user, links[l].purpose>>

NotCalled == [pc |-> "ready"]

Answered == [pc |-> "over"]

LinksInit ==
  /\ links = <<>>
  /\ account \in [Users -> [active : BOOLEAN, mustChange : BOOLEAN]]
  /\ issue = [c \in Issues |-> NotCalled]
  /\ use = [d \in Uses |-> NotCalled]
  /\ raced = {}

-----------------------------------------------------------------------------
(* createInvitation and requestPasswordReset                               *)

Issuing(c) == issue[c].pc \in {"read", "superseded", "inserted", "mailed"}

\* Users without an email, or an email without a user, end the call here.
ReadUser(c, u, purpose) ==
  /\ issue[c].pc = "ready"
  /\ issue' = [issue EXCEPT ![c] = [pc |-> "read", owner |-> <<u, purpose>>]]
  /\ raced' = raced \cup
       {{c, o} : o \in {o \in Issues : Issuing(o) /\ issue[o].owner = <<u, purpose>>}}
  /\ UNCHANGED <<links, account, use>>

\* Mutant: only the links whose mail was delivered.
OutstandingIfSent(l, owner) == Owner(l) = owner /\ ~links[l].used /\ links[l].sent

Outstanding(l, owner) == Owner(l) = owner /\ ~links[l].used

Supersede(c) ==
  /\ issue[c].pc = "read"
  /\ links' = [l \in DOMAIN links |->
       IF Outstanding(l, issue[c].owner)
         THEN [links[l] EXCEPT !.used = TRUE, !.error = "superseded"] ELSE links[l]]
  /\ issue' = [issue EXCEPT ![c].pc = "superseded"]
  /\ UNCHANGED <<account, use, raced>>

InsertLink(c) ==
  /\ issue[c].pc = "superseded"
  /\ Len(links) < MaxLinks
  /\ links' = Append(links, [by |-> c, user |-> issue[c].owner[1],
                             purpose |-> issue[c].owner[2], used |-> FALSE, expired |-> FALSE, sent |-> FALSE, error |-> "none",
                             uses |-> 0, shared |-> FALSE])
  /\ issue' = [issue EXCEPT ![c] = [pc |-> "inserted", owner |-> issue[c].owner, link |-> Len(links) + 1]]
  /\ UNCHANGED <<account, use, raced>>

\* mailer.send never throws; what it answers is recorded of invitations only.
MailLink(c, delivered) ==
  /\ issue[c].pc = "inserted"
  /\ issue' = [issue EXCEPT ![c] =
       IF issue[c].owner[2] = "password_reset" THEN Answered
       ELSE [pc |-> "mailed", owner |-> issue[c].owner, link |-> issue[c].link, delivered |-> delivered]]
  /\ UNCHANGED <<links, account, use, raced>>

\* send_error is overwritten.
RecordDelivery(c) ==
  /\ issue[c].pc = "mailed"
  /\ links' = [links EXCEPT ![issue[c].link] =
       [@ EXCEPT !.sent = issue[c].delivered, !.error = IF issue[c].delivered THEN "none" ELSE "failed"]]
  /\ issue' = [issue EXCEPT ![c] = Answered]
  /\ UNCHANGED <<account, use, raced>>

DieIssuing(c) ==
  /\ Issuing(c)
  /\ issue' = [issue EXCEPT ![c] = Answered]
  /\ UNCHANGED <<links, account, use, raced>>

-----------------------------------------------------------------------------
(* completeActivation and completePasswordReset                            *)

Expire(l) ==
  /\ ~links[l].expired
  /\ links' = [links EXCEPT ![l].expired = TRUE]
  /\ UNCHANGED <<account, issue, use, raced>>

Using(d, l) == use[d].pc = "found" /\ use[d].link = l

\* _findActiveToken: 410 for a link that is used or has expired.
FindLink(d, l) ==
  /\ use[d].pc = "ready"
  /\ IF links[l].used \/ links[l].expired
     THEN use' = [use EXCEPT ![d] = Answered] /\ UNCHANGED links
     ELSE /\ use' = [use EXCEPT ![d] = [pc |-> "found", link |-> l]]
          /\ links' = [links EXCEPT ![l].shared = @ \/ \E o \in Uses : Using(o, l)]
  /\ UNCHANGED <<account, issue, raced>>

\* The transaction; the link is marked whatever has become of it.
SetPassword(d) ==
  /\ use[d].pc = "found"
  /\ LET l == use[d].link
     IN  /\ account' = [account EXCEPT ![links[l].user] =
              [active |-> IF links[l].purpose = "invitation" THEN TRUE ELSE @.active, mustChange |-> FALSE]]
         /\ links' = [links EXCEPT ![l].used = TRUE, ![l].uses = @ + 1]
  /\ use' = [use EXCEPT ![d] = Answered]
  /\ UNCHANGED <<issue, raced>>

DieUsing(d) ==
  /\ use[d].pc = "found"
  /\ use' = [use EXCEPT ![d] = Answered]
  /\ UNCHANGED <<links, account, issue, raced>>

LinksNext ==
  \/ \E c \in Issues, u \in Users, purpose \in Purposes : ReadUser(c, u, purpose)
  \/ \E c \in Issues : Supersede(c) \/ InsertLink(c) \/ RecordDelivery(c) \/ DieIssuing(c)
  \/ \E c \in Issues, delivered \in BOOLEAN : MailLink(c, delivered)
  \/ \E l \in DOMAIN links : Expire(l)
  \/ \E d \in Uses, l \in DOMAIN links : FindLink(d, l)
  \/ \E d \in Uses : SetPassword(d) \/ DieUsing(d)

LinksSpec == LinksInit /\ [][LinksNext]_linkVars

-----------------------------------------------------------------------------
(* Properties                                                              *)

LinksTypeOK ==
  /\ links \in Seq(Link)
  /\ account \in [Users -> [active : BOOLEAN, mustChange : BOOLEAN]]
  /\ issue \in [Issues -> {NotCalled, Answered} \cup
       [pc : {"read", "superseded"}, owner : Users \X Purposes] \cup
       [pc : {"inserted"}, owner : Users \X Purposes, link : DOMAIN links] \cup
       [pc : {"mailed"}, owner : Users \X Purposes, link : DOMAIN links, delivered : BOOLEAN]]
  /\ use \in [Uses -> {NotCalled, Answered} \cup [pc : {"found"}, link : DOMAIN links]]
  /\ raced \in SUBSET SUBSET Issues

\* "Invalidate prior outstanding invitations", "one-shot": wherever a call dies
\* and whatever else happens to the links, of a user's links only the newest can
\* be open, save one whose call overlapped with that of a newer one: the next call
\* on its own closes them both. A link that is closed was used or superseded, and
\* says so unless its call was overlapped. A link sets one password, except when two
\* calls read it at once, and the account has then been changed as well.
LinksHonoured ==
  /\ \A k, l \in DOMAIN links :
       k < l /\ Owner(k) = Owner(l) => links[k].used \/ {links[k].by, links[l].by} \in raced
  /\ \A l \in DOMAIN links :
       /\ links[l].used => \/ links[l].uses > 0
                          \/ links[l].error = "superseded"
                          \/ \E o \in Issues : {links[l].by, o} \in raced
       /\ links[l].uses <= 1 \/ links[l].shared
       /\ links[l].uses > 0 => /\ links[l].used /\ ~account[links[l].user].mustChange
                               /\ links[l].purpose = "invitation" => account[links[l].user].active
=============================================================================
