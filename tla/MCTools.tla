------------------------------- MODULE MCTools -------------------------------
(***************************************************************************)
(* The tools' own logic for TLC.  These modules share no state, so each    *)
(* behaviour follows one of them, `focus`, and the others stand still.     *)
(***************************************************************************)
EXTENDS PlanParser, ClusterAccess, CliOutput, ResetPlan, ShellQuote, LogDirs,
        TopicReads, OffsetLookup, GroupListing, TopicConfigs, AclListing, ConsumerGroup,
        AdminPool, TLC

CONSTANTS g, t, w, p1, p2, m1, m2

----------------------------------------------------------------------------
(* PlanParser: up to two rows, with up to two stray tokens before, between *)
(* and after them.  The number 7 also names a group and a topic.           *)

Plain == <<"GROUP", "TOPIC", "PARTITION", "NEW-OFFSET">>

MCHeaders == {<<>>, <<"PARTITION", "NEW-OFFSET">>, <<"GROUP", "TOPIC", "LAG", "NEW-OFFSET">>,
              Plain, <<"WARN">> \o Plain, <<"GROUP", "PARTITION", "LAG", "NEW-OFFSET">>}

MCWords == {g, t, w}
MCRank  == [x \in {g, t, w} \cup (0..9) |-> CASE x = g -> 10 [] x = t -> 11 [] x = w -> 12
                                              [] OTHER -> x]

PrintedRow(group_id, topic, partition, new_offset) ==
  [group |-> group_id, topic |-> topic, partition |-> partition, new_offset |-> new_offset]

Cells(r) == <<r.group, r.topic, r.partition, r.new_offset>>

Stray == {w, 7}
Noise == {<<>>} \cup {<<x>> : x \in Stray} \cup {<<x, y>> : x \in Stray, y \in Stray}

Text(tokens, printed, starts) == [tokens |-> tokens, printed |-> printed, starts |-> starts]

\* Partition 1 is printed before partition 0.
MCStreams ==
  {Text(a, <<>>, <<>>) : a \in Noise}
  \cup
  {LET r == PrintedRow(x, y, 1, 4)
   IN  Text(a \o Cells(r) \o b, <<r>>, <<Len(a) + 1>>) :
     x \in {g, 7}, y \in {t, 7}, a \in Noise, b \in Noise}
  \cup
  {LET r == PrintedRow(x, y, 1, 4)
       q == PrintedRow(x, y, 0, 5)
   IN  Text(a \o Cells(r) \o b \o Cells(q) \o c, <<r, q>>,
            <<Len(a) + 1, Len(a) + Len(b) + 5>>) :
     x \in {g, 7}, y \in {t, 7}, a \in Noise, b \in Noise, c \in Noise}

----------------------------------------------------------------------------
(* The others.                                                             *)

\* ClusterAccess: a stub and two clusters, one of which moves or goes.
MCRegistries ==
  [{1, 2} -> {[auth |-> "IAM", servers |-> "s1"], [auth |-> "IAM", servers |-> "s2"],
              [auth |-> "SASL_SCRAM", servers |-> "s1"], Absent}]

\* ResetPlan.
MCValues == {-1, 0, 2}

\* ShellQuote: one argument of up to four characters, or two of up to two.
Chars(n)   == UNION {[1..m -> {"safe", "space", "quote", "backslash", "special"}] : m \in 0..n}
MCArgLists == {<<x>> : x \in Chars(4)} \cup {<<x, y>> : x \in Chars(2), y \in Chars(2)}

\* LogDirs: x, x-y and x-0; up to two replicas on two disks, either of them broken.
MCNames    == {<<"x">>, <<"x", "y">>, <<"x", "0">>}
MCReplicas == [broker : {1, 2}, dir : {"d"}, topic : MCNames, partition : {"0"}, future : BOOLEAN]
MCLayouts  ==
  [replicas : {{}} \cup {{r} : r \in MCReplicas} \cup {{r, q} : r \in MCReplicas, q \in MCReplicas},
   broken   : SUBSET {<<1, "d">>, <<2, "d">>}]

\* TopicReads: a topic, one whose name goes on from it, and an internal one.
MCReplicated == {<<"a", 0>>, <<"a-dlq", 0>>, <<"__consumer_offsets", 0>>}
MCPlacement  == <<"a", 0>> :> {1, 2} @@ <<"a-dlq", 0>> :> {2, 3} @@ <<"__consumer_offsets", 0>> :> {1}
MCExactly    == "None" :> {p[1] : p \in MCReplicated} @@ "a" :> {"a"}
MCBeginning  == "None" :> {p[1] : p \in MCReplicated} @@ "a" :> {"a", "a-dlq"}

\* GroupListing.
MCUpperCase == "stable" :> "STABLE" @@ "EMPTY" :> "EMPTY"

\* AclListing.
MCBindings   ==
  {[restype |-> r, name |-> n, pattern |-> "LITERAL", principal |-> "p"] :
     r \in ResourceTypes, n \in {"a", "b"}}
  \cup {[restype |-> "TOPIC", name |-> "a", pattern |-> "PREFIXED", principal |-> q] : q \in {"p", "q"}}
MCAclFilters == [resource_type : DOMAIN Capitals, resource_name : {"ANY", "a"},
                 principal : {"ANY", "p"}]

\* ConsumerGroup: a partition that grows and one that stays empty, held by either of
\* two members, by both, or one of them by nobody.
MCMaxOffset   == p1 :> 1 @@ p2 :> 0
MCAssignments == {m1 :> {p1, p2} @@ m2 :> {}, m1 :> {p1} @@ m2 :> {p2}, m1 :> {} @@ m2 :> {p1}}

----------------------------------------------------------------------------
VARIABLE focus

all == <<focus, vars, accessVars, outputVars, resetVars, quoteVars, dirsVars, readVars, lookupVars,
         listingVars, configVars, aclVars, groupVars, poolVars>>

\* A component that is not looked at stands in one of its initial states.
StandsStill(component) ==
  CASE component = "plan"    -> header_cols = <<>> /\ stream = Text(<<>>, <<>>, <<>>) /\ Init
    [] component = "access"  -> yaml = [c \in {1, 2} |-> Absent] /\ AccessInit
    [] component = "output"  -> OutputInit
    [] component = "reset"   -> committed = [p \in Parts |-> 0] /\ active = FALSE /\ ResetInit
    [] component = "quote"   -> args = <<<<>>>> /\ QuoteInit
    [] component = "dirs"    -> /\ layout = [replicas |-> {}, broken |-> {}] /\ bleeds = "nothing"
                                /\ topic_filter = NoFilter /\ DirsInit
    [] component = "reads"   -> /\ forbidden = {} /\ isr = Placement /\ sdk = TRUE /\ filtered = "None"
                                /\ adding = [p \in Replicated |-> {}] /\ ReadsInit
    [] component = "lookup"  -> /\ there = {} /\ log = [p \in LogParts |-> <<>>]
                                /\ timestamp_ms = 1 /\ partitions = {} /\ LookupInit
    [] component = "listing" -> /\ coordinator = [x \in GroupIds |-> {}] /\ state_filter = AnyState
                                /\ stateOf = [x \in GroupIds |-> NoState] /\ ListingInit
    [] component = "configs" -> exposed = TRUE /\ ConfigsInit
    [] component = "acls"    -> is_iam = TRUE /\ AclsInit
                                /\ asked_for = CHOOSE f \in AclFilters : TRUE
    [] component = "group"   -> GroupInit
    [] component = "pool"    -> up = TRUE /\ PoolInit

Starts(component) ==
  CASE component = "plan"    -> Init         [] component = "access"  -> AccessInit
    [] component = "output"  -> OutputInit   [] component = "reset"   -> ResetInit
    [] component = "quote"   -> QuoteInit    [] component = "dirs"    -> DirsInit
    [] component = "reads"   -> ReadsInit    [] component = "lookup"  -> LookupInit
    [] component = "listing" -> ListingInit  [] component = "configs" -> ConfigsInit
    [] component = "acls"    -> AclsInit     [] component = "group"   -> GroupInit
    [] component = "pool"    -> PoolInit

Components == {"plan", "access", "output", "reset", "quote", "dirs", "reads", "lookup", "listing",
               "configs", "acls", "group", "pool"}

ToolsInit ==
  /\ focus \in Components
  /\ \A c \in Components : c # focus => StandsStill(c)
  /\ Starts(focus)

Moves(component, Acts, variables) ==
  IF focus = component THEN Acts ELSE UNCHANGED variables

ToolsNext ==
  /\ UNCHANGED focus
  /\ Moves("plan", Next, vars)              /\ Moves("access", AccessNext, accessVars)
  /\ Moves("output", OutputNext, outputVars) /\ Moves("reset", ResetNext, resetVars)
  /\ Moves("quote", QuoteNext, quoteVars)   /\ Moves("dirs", DirsNext, dirsVars)
  /\ Moves("reads", ReadsNext, readVars)    /\ Moves("lookup", LookupNext, lookupVars)
  /\ Moves("listing", ListingNext, listingVars)
  /\ Moves("configs", ConfigsNext, configVars)
  /\ Moves("acls", AclsNext, aclVars)
  /\ Moves("group", GroupNext, groupVars)   /\ Moves("pool", PoolNext, poolVars)

ToolsSpec == ToolsInit /\ [][ToolsNext]_all

\* The type invariant of the component that is looked at, where it has one.
ToolsTypeOK ==
  /\ focus = "plan"   => TypeOK
  /\ focus = "access" => AccessTypeOK
  /\ focus = "output" => OutputTypeOK
  /\ focus = "reset"  => ResetTypeOK
  /\ focus = "reads"  => ReadsTypeOK
  /\ focus = "lookup" => LookupTypeOK
  /\ focus = "group"  => GroupTypeOK
  /\ focus = "pool"   => PoolTypeOK
=============================================================================
