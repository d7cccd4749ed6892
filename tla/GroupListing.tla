----------------------------- MODULE GroupListing -----------------------------
(***************************************************************************)
(* list_consumer_groups: every broker is asked for the groups it           *)
(* coordinates, each at its own moment, and may fail to answer; groups     *)
(* change their state and their coordinator meanwhile.                     *)
(***************************************************************************)
EXTENDS FiniteSets, Naturals

CONSTANTS
  Coordinators,  \* the brokers
  GroupIds,
  StateNames,    \* the states' names, in capitals
  NoState,       \* the state of a group whose broker does not tell it
  StateFilters,  \* what state_filter may be
  UpperCase,     \* UpperCase[f]: f.upper()
  AnyState       \* state_filter is None

ASSUME ListingAssumption ==
  /\ UpperCase \in [StateFilters -> StateNames]
  /\ NoState \notin StateNames /\ AnyState \notin StateFilters

VARIABLES
  coordinator,   \* coordinator[g]: in a set; empty if there is no group g
  stateOf,
  state_filter,
  heard,         \* the brokers that answered
  errors,        \* the brokers that failed
  valid,         \* listing.valid: rows [group, state, from]
  listing,       \* [rows, summary]; summary: "none", "none in state", "counted", ...
  unmoved        \* history: groups that have stayed where and as they were

groupState  == <<coordinator, stateOf>>
listingVars == <<groupState, state_filter, heard, errors, valid, listing, unmoved>>

NotListed == [rows |-> {}, summary |-> "not yet", mentioned |-> 0]

ListingInit ==
  /\ coordinator \in [GroupIds -> {{}} \cup {{b} : b \in Coordinators}]
  /\ stateOf \in [GroupIds -> StateNames \cup {NoState}]
  /\ state_filter \in StateFilters \cup {AnyState}
  /\ heard = {} /\ errors = {} /\ valid = {} /\ listing = NotListed
  /\ unmoved = GroupIds

Open == listing = NotListed

----------------------------------------------------------------------------
\* A group comes, goes, moves or changes its state once the first broker was asked.
Regroup(g) ==
  /\ Open /\ heard \cup errors # {}
  /\ \/ /\ \E c \in {{}} \cup {{b} : b \in Coordinators} : coordinator' = [coordinator EXCEPT ![g] = c]
        /\ UNCHANGED stateOf
     \/ /\ \E s \in StateNames \cup {NoState} : stateOf' = [stateOf EXCEPT ![g] = s]
        /\ UNCHANGED coordinator
  /\ unmoved' = unmoved \ {g}
  /\ UNCHANGED <<state_filter, heard, errors, valid, listing>>

----------------------------------------------------------------------------
\* admin.list_consumer_groups(): one broker answers, or fails.
Hear(b) ==
  /\ Open /\ b \notin heard \cup errors
  /\ heard' = heard \cup {b}
  /\ valid' = valid \cup {[group |-> g, state |-> stateOf[g], from |-> b] :
                            g \in {h \in GroupIds : b \in coordinator[h]}}
  /\ UNCHANGED <<groupState, state_filter, errors, listing, unmoved>>

BrokerFails(b) ==
  /\ Open /\ b \notin heard \cup errors
  /\ errors' = errors \cup {b}
  /\ UNCHANGED <<groupState, state_filter, heard, valid, listing, unmoved>>

\* Mutant: the filter is compared as it is written.
PassesCased(row) == state_filter \in {AnyState, row.state}

\* The filter is compared in capitals; a group without a state passes none.
Passes(row) == state_filter # AnyState => row.state = UpperCase[state_filter]

\* _summarize
Summarize(rows) ==
  [rows      |-> rows,
   summary   |-> IF rows # {} THEN "counted" ELSE IF state_filter = AnyState THEN "none" ELSE "none in state",
   mentioned |-> IF rows # {} THEN Cardinality(errors) ELSE 0]

Answer ==
  /\ Open /\ heard \cup errors = Coordinators
  /\ listing' = Summarize({row \in valid : Passes(row)})
  /\ UNCHANGED <<groupState, state_filter, heard, errors, valid, unmoved>>

ListingNext ==
  \/ Answer
  \/ \E b \in Coordinators : Hear(b) \/ BrokerFails(b)
  \/ \E g \in GroupIds : Regroup(g)

ListingSpec == ListingInit /\ [][ListingNext]_listingVars

----------------------------------------------------------------------------
(* Properties.                                                             *)

\* A group that is there all the time in a state the filter names, however it is
\* spelled, is listed, unless its coordinator failed to answer; a total of no
\* groups says no more than that.
SteadyGroupsListed ==
  ~Open => \A g \in unmoved :
    coordinator[g] \subseteq heard /\ coordinator[g] # {}
      /\ (state_filter = AnyState \/ stateOf[g] = UpperCase[state_filter])
    => \E row \in listing.rows : row.group = g

\* tests/tools/test_list_consumer_groups.py:129: the summary mentions listing
\* errors when there are any.
ErrorsMentioned == ~Open => listing.mentioned = Cardinality(errors)
=============================================================================
