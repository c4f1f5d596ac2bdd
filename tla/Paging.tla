-------------------------------- MODULE Paging --------------------------------
(***************************************************************************)
(* listAgents (client.ts, iterPages and collectPages): every agent of a    *)
(* workspace, page by page over a cursor that is an offset, while agents   *)
(* are registered and deleted between two calls.                           *)
(***************************************************************************)
EXTENDS Naturals, FiniteSets

CONSTANTS PageSize, MaxPages,       \* the server's page; MAX_AUTO_PAGES
          MaxAgents                 \* bound: agents ever registered

ASSUME PagingAssumption ==
  PageSize \in Nat \ {0} /\ MaxPages \in Nat \ {0} /\ MaxAgents \in Nat

VARIABLES
  agents,      \* the server's agents
  registered,  \* how many were ever registered; an agent is its number
  listing,     \* the call: [phase, cursor, seen, rows]; how often each agent is a row
  stayed,      \* agents there from the first page to now
  deleted      \* an agent was deleted since the first page

pagingVars == <<agents, registered, listing, stayed, deleted>>

Agents == 1..MaxAgents

ListingTypeOK ==
  /\ registered \in 0..MaxAgents /\ agents \subseteq 1..registered
  /\ listing \in [phase : {"paging", "complete", "refused"}, cursor : Nat,
                  seen : SUBSET Nat, rows : [Agents -> Nat]]
  /\ stayed \subseteq Agents /\ deleted \in BOOLEAN

-----------------------------------------------------------------------------
\* The server lists the newest first.
Place(a) == Cardinality({b \in agents : b >= a})

PageOf(cursor) == {a \in agents : cursor < Place(a) /\ Place(a) <= cursor + PageSize}

AllOfPage(rows, page) == [a \in Agents |-> IF a \in page THEN rows[a] + 1 ELSE rows[a]]

\* The rows of a page no earlier one returned.
WithNew(rows, page) ==
  [a \in Agents |-> IF a \in page /\ rows[a] = 0 THEN 1 ELSE rows[a]]

\* One page more.  It ends the list, or has a cursor no earlier page sent; a
\* page that says more and has none is drift, and the 50th must be the last.
FetchPage ==
  LET page == PageOf(listing.cursor)
      rows == WithNew(listing.rows, page)
      next == listing.cursor + PageSize
      more == next < Cardinality(agents)
      calls == Cardinality(listing.seen) + 1
  IN /\ listing.phase = "paging"
     /\ stayed' = IF listing.seen = {} THEN agents ELSE stayed
     /\ \/ ~more /\ listing' = [listing EXCEPT !.phase = "complete", !.rows = rows]
        \/ /\ more
           /\ listing' = [listing EXCEPT
                !.phase = IF calls = MaxPages \/ next \in listing.seen THEN "refused" ELSE "paging",
                !.cursor = next, !.seen = @ \cup {next}, !.rows = rows]
        \* has_more without a cursor, or with an earlier one
        \/ more /\ listing' = [listing EXCEPT !.phase = "refused", !.rows = rows]
     /\ UNCHANGED <<agents, registered, deleted>>

\* Before v0.82.0: every agent in one reply, which says nothing of more.
FetchUnpaged ==
  /\ listing.phase = "paging" /\ listing.seen = {}
  /\ stayed' = agents
  /\ listing' = [listing EXCEPT !.phase = "complete", !.rows = WithNew(@, agents)]
  /\ UNCHANGED <<agents, registered, deleted>>

-----------------------------------------------------------------------------
Started == listing.seen # {}

Register ==
  /\ Started /\ listing.phase = "paging" /\ registered < MaxAgents
  /\ registered' = registered + 1
  /\ agents' = agents \cup {registered + 1}
  /\ UNCHANGED <<listing, stayed, deleted>>

Delete ==
  /\ Started /\ listing.phase = "paging"
  /\ \E a \in agents : agents' = agents \ {a} /\ stayed' = stayed \ {a}
  /\ deleted' = TRUE
  /\ UNCHANGED <<registered, listing>>

PagingInit ==
  /\ registered \in 0..MaxAgents
  /\ agents = 1..registered
  /\ listing = [phase |-> "paging", cursor |-> 0, seen |-> {}, rows |-> [a \in Agents |-> 0]]
  /\ stayed = {} /\ deleted = FALSE

PagingNext == FetchPage \/ FetchUnpaged \/ Register \/ Delete

PagingSpec == PagingInit /\ [][PagingNext]_pagingVars

-----------------------------------------------------------------------------
\* A list that is returned has each agent once, however agents move across its
\* pages, and every agent that was there from its first page to its last, unless
\* one was deleted meanwhile (listAgents: "each `id` once, but one deleted
\* between calls can make the next page skip an agent").
ListedOnce ==
  listing.phase = "complete" =>
    /\ \A a \in Agents : listing.rows[a] <= 1
    /\ ~deleted => \A a \in stayed : listing.rows[a] = 1
=============================================================================
