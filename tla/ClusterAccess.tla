---------------------------- MODULE ClusterAccess ----------------------------
(***************************************************************************)
(* How a call gets at a cluster: the registry read once at start           *)
(* (config.py), the client.properties files rendered from it               *)
(* (client_properties.py) and the AdminClients built from it on demand     *)
(* (kafka_clients.py), over the lives of one server process.  The files    *)
(* outlive the process; clusters.yaml is edited and files are removed      *)
(* whenever someone likes.                                                 *)
(***************************************************************************)
EXTENDS Integers

CONSTANTS
  Ids,         \* cluster ids, in the order of sorted()
  Servers,     \* bootstrap server lists
  Registries,  \* what clusters.yaml may say
  LimitValues  \* what the environment may give for the two limits and the timeout

ASSUME IdsAssumption == Ids \subseteq Nat

AuthTypes == {"IAM", "SASL_SCRAM", "MTLS"}
Absent    == [auth |-> "absent", servers |-> "none"]
Entries   == [auth : AuthTypes, servers : Servers]

ASSUME RegistriesAssumption ==
  /\ Registries \subseteq [Ids -> Entries \cup {Absent}]
  /\ LimitValues \subseteq Int

VARIABLES
  yaml,      \* clusters.yaml
  files,     \* the rendered files: "none", "partial" or "whole"
  removed,   \* history: files somebody removed after they were written
  proc,      \* "down", "rendering" or "up"
  registry, limits, left,  \* left: the clusters render_all has not come to
  paths,     \* _paths
  clients,   \* _clients: the servers a client was built for
  reply      \* what the last call was given

memory     == <<proc, registry, limits, left, paths, clients, reply>>
accessVars == <<yaml, files, removed, memory>>

NoReply   == [what |-> "none", servers |-> "none"]
NoClients == [c \in Ids |-> "none"]
Forgotten == [c \in Ids |-> Absent]

AccessInit ==
  /\ yaml \in Registries
  /\ files = [c \in Ids |-> "none"] /\ removed = {}
  /\ proc = "down" /\ registry = Forgotten /\ limits = [tool |-> 1, cli |-> 1, timeout |-> 1]
  /\ left = {} /\ paths = {} /\ clients = NoClients /\ reply = NoReply

----------------------------------------------------------------------------
Listed(r) == {c \in Ids : r[c] # Absent}

\* Settings._validate_positives
Positive(l) == l.tool >= 1 /\ l.cli >= 1 /\ l.timeout > 0

\* Mutant: the settings are taken as they are.
LoadUnchecked ==
  /\ proc = "down" /\ Listed(yaml) # {}
  /\ limits' \in [tool : LimitValues, cli : LimitValues, timeout : LimitValues]
  /\ registry' = yaml /\ left' = Listed(yaml) /\ proc' = "rendering"
  /\ UNCHANGED <<yaml, files, removed, paths, clients, reply>>

\* load_settings and load_registry.  Values or a file that do not validate
\* end the process before it has begun anything.
Load ==
  /\ proc = "down" /\ Listed(yaml) # {}
  /\ \E l \in [tool : LimitValues, cli : LimitValues, timeout : LimitValues] :
       Positive(l) /\ limits' = l
  /\ registry' = yaml /\ left' = Listed(yaml) /\ proc' = "rendering"
  /\ UNCHANGED <<yaml, files, removed, paths, clients, reply>>

\* _render has text for no other kind of cluster, nor has _build a client.
Supported(e) == e.auth = "IAM"

\* The write of a file, and one that fails at some point of it.
Written(c) ==
  /\ files' = [files EXCEPT ![c] = "whole"]
  /\ removed' = removed \ {c}
  /\ paths' = paths \cup {c}

WriteFails(c) ==
  \E f \in {"partial", "whole", files[c]} :
    /\ files' = [files EXCEPT ![c] = f]
    /\ removed' = IF f = files[c] THEN removed ELSE removed \ {c}

\* render_all goes on with the least id that is left.
Turn(c) == proc = "rendering" /\ c \in left /\ \A d \in left : c <= d

Render(c) ==
  /\ Turn(c) /\ Supported(registry[c])
  /\ Written(c)
  /\ left' = left \ {c}
  /\ UNCHANGED <<yaml, proc, registry, limits, clients, reply>>

\* Mutant: a cluster that is skipped is entered in _paths too.
SkipEntered(c) ==
  /\ Turn(c) /\ ~Supported(registry[c])
  /\ left' = left \ {c} /\ paths' = paths \cup {c}
  /\ UNCHANGED <<yaml, files, removed, proc, registry, limits, clients, reply>>

Skip(c) ==
  /\ Turn(c) /\ ~Supported(registry[c])
  /\ left' = left \ {c}
  /\ UNCHANGED <<yaml, files, removed, proc, registry, limits, paths, clients, reply>>

Exit ==
  /\ proc' = "down" /\ registry' = Forgotten /\ left' = {}
  /\ paths' = {} /\ clients' = NoClients /\ reply' = NoReply
  /\ UNCHANGED limits

\* Mutant: a file that cannot be written is passed over.
RenderFailsOn(c) ==
  /\ Turn(c) /\ Supported(registry[c])
  /\ WriteFails(c)
  /\ left' = left \ {c}
  /\ UNCHANGED <<yaml, proc, registry, limits, paths, clients, reply>>

\* An OSError is not caught: the process ends.
RenderFails(c) ==
  /\ Turn(c) /\ Supported(registry[c])
  /\ WriteFails(c) /\ Exit
  /\ UNCHANGED yaml

Ready ==
  /\ proc = "rendering" /\ left = {} /\ proc' = "up"
  /\ UNCHANGED <<yaml, files, removed, registry, limits, left, paths, clients, reply>>

Given(what, c) == [what |-> what, id |-> c, servers |-> registry[c].servers]

\* get_path(), and the bootstrap servers the tool puts beside it in argv.  A
\* path that is not cached is rendered first.
GetPath(c) ==
  /\ proc = "up" /\ (c \in paths \/ Supported(registry[c]))
  /\ IF c \in paths THEN UNCHANGED <<files, removed, paths>> ELSE Written(c)
  /\ reply' = Given("path", c)
  /\ UNCHANGED <<yaml, proc, registry, limits, left, clients>>

Refused == [what |-> "error", servers |-> "none"]

PathRefused(c) ==
  /\ proc = "up" /\ c \notin paths /\ ~Supported(registry[c])
  /\ reply' = Refused
  /\ UNCHANGED <<yaml, files, removed, proc, registry, limits, left, paths, clients>>

\* Mutant: a client is built from what clusters.yaml says now.
BuildFromFile(c) ==
  /\ proc = "up" /\ clients[c] = "none" /\ Supported(yaml[c])
  /\ clients' = [clients EXCEPT ![c] = yaml[c].servers]
  /\ reply' = [what |-> "client", id |-> c, servers |-> yaml[c].servers]
  /\ UNCHANGED <<yaml, files, removed, proc, registry, limits, left, paths>>

Build(c) ==
  /\ proc = "up" /\ clients[c] = "none" /\ Supported(registry[c])
  /\ clients' = [clients EXCEPT ![c] = registry[c].servers]
  /\ reply' = Given("client", c)
  /\ UNCHANGED <<yaml, files, removed, proc, registry, limits, left, paths>>

GetClient(c) ==
  /\ proc = "up" /\ clients[c] # "none"
  /\ reply' = [what |-> "client", id |-> c, servers |-> clients[c]]
  /\ UNCHANGED <<yaml, files, removed, proc, registry, limits, left, paths, clients>>

ClientRefused(c) ==
  /\ proc = "up" /\ clients[c] = "none" /\ ~Supported(registry[c])
  /\ reply' = Refused
  /\ UNCHANGED <<yaml, files, removed, proc, registry, limits, left, paths, clients>>

----------------------------------------------------------------------------
\* The world outside.
Crash    == proc # "down" /\ Exit /\ UNCHANGED <<yaml, files, removed>>
Edit     == yaml' \in Registries /\ UNCHANGED <<files, removed, memory>>
RemoveFile(c) ==
  /\ files[c] # "none"
  /\ files' = [files EXCEPT ![c] = "none"] /\ removed' = removed \cup {c}
  /\ UNCHANGED <<yaml, memory>>

AccessNext ==
  \/ Load \/ Ready \/ Crash \/ Edit
  \/ \E c \in Ids :
       \/ Render(c) \/ Skip(c) \/ RenderFails(c) \/ RemoveFile(c)
       \/ GetPath(c) \/ PathRefused(c)
       \/ Build(c) \/ GetClient(c) \/ ClientRefused(c)

AccessSpec == AccessInit /\ [][AccessNext]_accessVars

----------------------------------------------------------------------------
(* Properties.                                                             *)

AccessTypeOK ==
  /\ yaml \in [Ids -> Entries \cup {Absent}]
  /\ files \in [Ids -> {"none", "partial", "whole"}]
  /\ removed \subseteq Ids
  /\ proc \in {"down", "rendering", "up"}
  /\ registry \in [Ids -> Entries \cup {Absent}]
  /\ limits \in [tool : Int, cli : Int, timeout : Int] /\ Positive(limits)
  /\ left \subseteq Ids /\ paths \subseteq Ids
  /\ clients \in [Ids -> Servers \cup {"none"}]
  /\ reply \in {NoReply, Refused}
            \cup [what : {"path", "client"}, id : Ids, servers : Servers \cup {"none"}]

\* A path that is handed out names a file that was written to its end in this
\* life of the process, whatever earlier lives left behind, unless somebody
\* removed it since (client_properties.py:59 does not look).
PathsAreWhole == \A c \in paths : files[c] = "whole" \/ c \in removed

\* A server that has started has rendered every cluster it can: the branch of
\* get_path() that renders on demand is never needed.
StartedMeansRendered ==
  proc = "up" => \A c \in Ids : Supported(registry[c]) => c \in paths

\* The command line and the AdminClient of one cluster go to the same brokers,
\* those of the registry that was loaded, however clusters.yaml was edited; and a
\* cluster this life does not support is given neither path nor client, though an
\* earlier life may have left its file.
SameBrokers ==
  reply.what \in {"path", "client"} =>
    Supported(registry[reply.id]) /\ reply.servers = registry[reply.id].servers
=============================================================================
