---------------------------- MODULE CliToolsProofs ----------------------------
(***************************************************************************)
(* Proofs about what a CLI tool goes through: the way to its cluster, the  *)
(* output of its subprocess, and what two of the tools make of it; and the *)
(* types of all the components that MCTools puts together.                 *)
(***************************************************************************)
EXTENDS MCTools, TextProofs, AdminReadsProofs, ConsumerGroupProofs, AdminPoolProofs

(* Files, paths and clients.                                               *)

\* A life of the process that has not begun holds nothing.
DownIsEmpty ==
  proc = "down" => /\ registry = Forgotten /\ left = {} /\ paths = {}
                   /\ clients = NoClients /\ reply = NoReply

\* Each cluster that can be rendered has its path, or is still to come.
RenderedOrLeft ==
  /\ proc = "up" => left = {}
  /\ proc # "down" => \A c \in Ids : Supported(registry[c]) => c \in paths \cup left

\* What is cached is of a supported cluster, and of the registry in force.
CachesAreSupported ==
  /\ \A c \in paths : Supported(registry[c])
  /\ \A c \in Ids : clients[c] # "none" =>
       Supported(registry[c]) /\ clients[c] = registry[c].servers

AccessInv ==
  /\ AccessTypeOK /\ DownIsEmpty /\ RenderedOrLeft /\ CachesAreSupported
  /\ PathsAreWhole /\ SameBrokers

LEMMA AccessInitially == AccessInit => AccessInv
<1> SUFFICES ASSUME AccessInit PROVE AccessInv
  OBVIOUS
<1>1. AccessTypeOK
  BY RegistriesAssumption DEF AccessInit, AccessTypeOK, Positive, Forgotten, NoClients
<1>2. DownIsEmpty /\ RenderedOrLeft /\ CachesAreSupported /\ PathsAreWhole
  BY DEF AccessInit, DownIsEmpty, RenderedOrLeft, CachesAreSupported, PathsAreWhole, NoClients
<1>3. SameBrokers
  BY DEF AccessInit, SameBrokers, NoReply
<1> QED
  BY <1>1, <1>2, <1>3 DEF AccessInv

\* The process starts: nothing is held yet, and all clusters are left.
LEMMA LoadKeeps == ASSUME AccessInv, Load PROVE AccessInv'
<1> USE DEF AccessInv, Load
<1>1. AccessTypeOK'
  <2>1. limits' \in [tool : Int, cli : Int, timeout : Int] /\ Positive(limits')
    BY RegistriesAssumption
  <2>2. left' \subseteq Ids
    BY DEF Listed
  <2> QED
    BY <2>1, <2>2 DEF AccessTypeOK, Positive
<1>2. DownIsEmpty'
  BY DEF DownIsEmpty
<1>3. RenderedOrLeft'
  BY DEF RenderedOrLeft, Listed, Supported, Absent
<1>4. CachesAreSupported' /\ PathsAreWhole'
  BY DEF DownIsEmpty, CachesAreSupported, PathsAreWhole, NoClients
<1>5. SameBrokers'
  BY DEF DownIsEmpty, SameBrokers, NoReply
<1> QED
  BY <1>1, <1>2, <1>3, <1>4, <1>5

\* A process that ends forgets all it held, whatever files it leaves.
LEMMA ExitKeeps ==
  ASSUME AccessInv, Exit, yaml' \in [Ids -> Entries \cup {Absent}],
         files' \in [Ids -> {"none", "partial", "whole"}], removed' \subseteq Ids
  PROVE  AccessInv'
<1>1. AccessTypeOK'
  BY DEF AccessInv, AccessTypeOK, Exit, Forgotten, NoClients, Positive
<1>2. /\ DownIsEmpty' /\ RenderedOrLeft' /\ PathsAreWhole'
      /\ SameBrokers'
  BY DEF Exit, DownIsEmpty, RenderedOrLeft, PathsAreWhole, SameBrokers, NoReply
<1>3. CachesAreSupported'
  BY DEF Exit, CachesAreSupported, NoClients
<1> QED
  BY <1>1, <1>2, <1>3 DEF AccessInv

LEMMA RenderFailsKeeps ==
  ASSUME NEW c \in Ids, AccessInv, RenderFails(c) PROVE AccessInv'
<1>1. files' \in [Ids -> {"none", "partial", "whole"}] /\ removed' \subseteq Ids
  BY DEF AccessInv, AccessTypeOK, RenderFails, WriteFails
<1> QED
  BY <1>1, ExitKeeps DEF RenderFails, AccessInv, AccessTypeOK

\* render_all comes to c: its file is written and its path entered, or it is
\* one that is not supported.
LEMMA RenderKeeps ==
  ASSUME NEW c \in Ids, AccessInv, Render(c) PROVE AccessInv'
<1>1. AccessTypeOK'
  BY DEF AccessInv, AccessTypeOK, Render, Written, Positive
<1>2. DownIsEmpty' /\ RenderedOrLeft' /\ CachesAreSupported'
  BY DEF AccessInv, AccessTypeOK, Render, Turn, Written, DownIsEmpty, RenderedOrLeft, CachesAreSupported
<1>3. PathsAreWhole'
  BY DEF AccessInv, AccessTypeOK, Render, Written, PathsAreWhole
<1>4. SameBrokers'
  BY DEF AccessInv, Render, SameBrokers
<1> QED
  BY <1>1, <1>2, <1>3, <1>4 DEF AccessInv

LEMMA SkipKeeps ==
  ASSUME NEW c \in Ids, AccessInv, Skip(c) PROVE AccessInv'
<1>1. AccessTypeOK'
  BY DEF AccessInv, AccessTypeOK, Skip, Positive
<1>2. DownIsEmpty' /\ RenderedOrLeft' /\ CachesAreSupported'
  BY DEF AccessInv, AccessTypeOK, Skip, Turn, DownIsEmpty, RenderedOrLeft, CachesAreSupported
<1>3. PathsAreWhole' /\ SameBrokers'
  BY DEF AccessInv, Skip, PathsAreWhole, SameBrokers
<1> QED
  BY <1>1, <1>2, <1>3 DEF AccessInv

LEMMA ReadyKeeps == ASSUME AccessInv, Ready PROVE AccessInv'
<1>1. AccessTypeOK'
  BY DEF AccessInv, AccessTypeOK, Ready, Positive
<1>2. DownIsEmpty' /\ RenderedOrLeft' /\ CachesAreSupported'
  BY DEF AccessInv, Ready, DownIsEmpty, RenderedOrLeft, CachesAreSupported
<1>3. PathsAreWhole' /\ SameBrokers'
  BY DEF AccessInv, Ready, PathsAreWhole, SameBrokers
<1> QED
  BY <1>1, <1>2, <1>3 DEF AccessInv

\* A path is served from the cache, or a file is rendered for it.
LEMMA GetPathKeeps ==
  ASSUME NEW c \in Ids, AccessInv, GetPath(c) PROVE AccessInv'
<1>1. Supported(registry[c]) /\ registry[c].servers \in Servers
  BY DEF AccessInv, AccessTypeOK, CachesAreSupported, GetPath, Supported, Entries, Absent
<1>2. reply' = Given("path", c) /\ reply' \in [what : {"path", "client"}, id : Ids, servers : Servers]
  BY <1>1 DEF GetPath, Given
<1>3. AccessTypeOK'
  BY <1>2 DEF AccessInv, AccessTypeOK, GetPath, Written, Positive
<1>4. DownIsEmpty' /\ RenderedOrLeft'
  BY DEF AccessInv, GetPath, Written, DownIsEmpty, RenderedOrLeft
<1>5. CachesAreSupported' /\ PathsAreWhole'
  BY <1>1 DEF AccessInv, AccessTypeOK, GetPath, Written, CachesAreSupported, PathsAreWhole
<1>6. SameBrokers'
  BY <1>1, <1>2 DEF GetPath, Given, SameBrokers
<1> QED
  BY <1>3, <1>4, <1>5, <1>6 DEF AccessInv

LEMMA BuildKeeps ==
  ASSUME NEW c \in Ids, AccessInv, Build(c) PROVE AccessInv'
<1>1. Supported(registry[c]) /\ registry[c].servers \in Servers
  BY DEF AccessInv, AccessTypeOK, Build, Supported, Entries, Absent
<1>2. reply' = Given("client", c) /\ reply' \in [what : {"path", "client"}, id : Ids, servers : Servers]
  BY <1>1 DEF Build, Given
<1>3. AccessTypeOK'
  BY <1>1, <1>2 DEF AccessInv, AccessTypeOK, Build, Positive
<1>4. DownIsEmpty' /\ RenderedOrLeft' /\ PathsAreWhole'
  BY DEF AccessInv, Build, DownIsEmpty, RenderedOrLeft, PathsAreWhole
<1>5. CachesAreSupported'
  BY <1>1 DEF AccessInv, AccessTypeOK, Build, CachesAreSupported
<1>6. SameBrokers'
  BY <1>1, <1>2 DEF Build, Given, SameBrokers
<1> QED
  BY <1>3, <1>4, <1>5, <1>6 DEF AccessInv

LEMMA GetClientKeeps ==
  ASSUME NEW c \in Ids, AccessInv, GetClient(c) PROVE AccessInv'
<1>1. Supported(registry[c]) /\ clients[c] = registry[c].servers
  BY DEF AccessInv, CachesAreSupported, GetClient
<1>2. reply' = [what |-> "client", id |-> c, servers |-> clients[c]] /\ clients[c] \in Servers \cup {"none"}
  BY DEF AccessInv, AccessTypeOK, GetClient
<1>3. AccessTypeOK'
  BY <1>2 DEF AccessInv, AccessTypeOK, GetClient, Positive
<1>4. DownIsEmpty' /\ RenderedOrLeft' /\ PathsAreWhole' /\ CachesAreSupported'
  BY DEF AccessInv, GetClient, DownIsEmpty, RenderedOrLeft, PathsAreWhole, CachesAreSupported
<1>5. SameBrokers'
  BY <1>1, <1>2 DEF GetClient, SameBrokers
<1> QED
  BY <1>3, <1>4, <1>5 DEF AccessInv

LEMMA RefusedKeeps ==
  ASSUME NEW c \in Ids, AccessInv, PathRefused(c) \/ ClientRefused(c) PROVE AccessInv'
<1>1. /\ proc = "up" /\ reply' = Refused
      /\ UNCHANGED <<yaml, files, removed, proc, registry, limits, left, paths, clients>>
  BY DEF PathRefused, ClientRefused
<1>2. AccessTypeOK'
  BY <1>1 DEF AccessInv, AccessTypeOK, Positive
<1>3. DownIsEmpty' /\ RenderedOrLeft' /\ PathsAreWhole' /\ CachesAreSupported'
  BY <1>1 DEF AccessInv, DownIsEmpty, RenderedOrLeft, PathsAreWhole, CachesAreSupported
<1>4. SameBrokers'
  BY <1>1 DEF Refused, SameBrokers
<1> QED
  BY <1>2, <1>3, <1>4 DEF AccessInv

\* Whatever is done to clusters.yaml and the files, the process does not notice.
LEMMA OutsideKeeps ==
  ASSUME AccessInv, Edit \/ \E c \in Ids : RemoveFile(c) PROVE AccessInv'
<1>1. /\ yaml' \in [Ids -> Entries \cup {Absent}] /\ removed \subseteq removed' /\ removed' \subseteq Ids
      /\ files' \in [Ids -> {"none", "partial", "whole"}]
      /\ \A d \in Ids : files'[d] = files[d] \/ d \in removed'
      /\ UNCHANGED <<proc, registry, limits, left, paths, clients, reply>>
  BY RegistriesAssumption DEF AccessInv, AccessTypeOK, Edit, RemoveFile, memory
<1>2. AccessTypeOK'
  BY <1>1 DEF AccessInv, AccessTypeOK, Positive
<1>3. DownIsEmpty' /\ RenderedOrLeft' /\ CachesAreSupported'
  BY <1>1 DEF AccessInv, DownIsEmpty, RenderedOrLeft, CachesAreSupported
<1>4. PathsAreWhole'
  BY <1>1 DEF AccessInv, AccessTypeOK, PathsAreWhole
<1>5. SameBrokers'
  BY <1>1 DEF AccessInv, SameBrokers
<1> QED
  BY <1>2, <1>3, <1>4, <1>5 DEF AccessInv

LEMMA AccessStep == AccessInv /\ [AccessNext]_accessVars => AccessInv'
<1> SUFFICES ASSUME AccessInv, [AccessNext]_accessVars PROVE AccessInv'
  OBVIOUS
<1>1. CASE Load
  BY <1>1, LoadKeeps
<1>2. CASE Ready
  BY <1>2, ReadyKeeps
<1>3. CASE Crash
  <2>1. Exit /\ UNCHANGED <<yaml, files, removed>>
    BY <1>3 DEF Crash
  <2> QED
    BY <2>1, ExitKeeps DEF AccessInv, AccessTypeOK
<1>4. CASE Edit \/ \E c \in Ids : RemoveFile(c)
  BY <1>4, OutsideKeeps
<1>5. ASSUME NEW c \in Ids, Render(c) \/ Skip(c) \/ RenderFails(c) PROVE AccessInv'
  BY <1>5, RenderKeeps, SkipKeeps, RenderFailsKeeps
<1>6. ASSUME NEW c \in Ids, GetPath(c) \/ Build(c) \/ GetClient(c) PROVE AccessInv'
  BY <1>6, GetPathKeeps, BuildKeeps, GetClientKeeps
<1>7. ASSUME NEW c \in Ids, PathRefused(c) \/ ClientRefused(c) PROVE AccessInv'
  BY <1>7, RefusedKeeps
<1>8. CASE UNCHANGED accessVars
  BY <1>8 DEF AccessInv, accessVars, memory, AccessTypeOK, DownIsEmpty, RenderedOrLeft,
              CachesAreSupported, PathsAreWhole, SameBrokers, Positive
<1> QED
  BY <1>1, <1>2, <1>3, <1>4, <1>5, <1>6, <1>7, <1>8 DEF AccessNext

LEMMA AccessInvariant == AccessSpec => []AccessInv
BY AccessInitially, AccessStep, PTL DEF AccessSpec

\* However often the process ends and starts, and whatever is done to clusters.yaml
\* and the files meanwhile: a path that is handed out names a whole file, or one
\* that somebody removed.
THEOREM PathsTheorem == AccessSpec => []PathsAreWhole
<1>1. AccessInv => PathsAreWhole
  BY DEF AccessInv
<1> QED
  BY <1>1, AccessInvariant, PTL

\* A server that is up has rendered a file for every cluster it can render one for.
THEOREM RenderedTheorem == AccessSpec => []StartedMeansRendered
<1>1. AccessInv => StartedMeansRendered
  BY DEF AccessInv, RenderedOrLeft, StartedMeansRendered
<1> QED
  BY <1>1, AccessInvariant, PTL

\* The command line and the AdminClient of a cluster go to the brokers of the
\* registry in force, of supported clusters alone.
THEOREM BrokersTheorem == AccessSpec => []SameBrokers
<1>1. AccessInv => SameBrokers
  BY DEF AccessInv
<1> QED
  BY <1>1, AccessInvariant, PTL

------------------------------------------------------------------------------
(* What becomes of a subprocess's output.                                  *)

OutputTypes ==
  /\ child \in {"alive", "ok", "error"}
  /\ emitted \in Seq(LineKinds) /\ blocks \in Seq(LineKinds)
  /\ taken \in 0..Len(emitted)
  /\ await \in {"first", "grace", "drain", "over", "empty"}
  /\ lost \in 0..taken
  /\ result \in [code : ErrorTypes \cup {"none", "ok"}, text : Seq(LineKinds)]

Communicating == await \in {"first", "grace", "drain"}

\* The blocks of a communicate() are what was read since the last deadline, those of
\* the first one all that was read.
BlocksAreLast ==
  Communicating =>
    /\ Len(blocks) = taken - lost
    /\ await = "first" => lost = 0
    /\ \A n \in 1..Len(blocks) : blocks[n] = emitted[taken - Len(blocks) + n]

\* There is an answer when nothing is awaited, and then the subprocess is over, but
\* where _terminate gave up.
OverWhenAnswered ==
  /\ Communicating <=> result.code = "none"
  /\ await = "over" => child # "alive"
  /\ await = "empty" => result.code = "TIMEOUT"

\* A failed command is judged by the groups of all that it printed.
JudgedByAll ==
  result.code \in ErrorTypes \ {"TIMEOUT"} => result.code = CliCode(Kinds(emitted))

OutputInv == OutputTypes /\ BlocksAreLast /\ OverWhenAnswered /\ OnlyReadIsLost /\ JudgedByAll

LEMMA OutputInitially == OutputInit => OutputInv
  BY DEF OutputInit, OutputInv, OutputTypes, BlocksAreLast, Communicating, OverWhenAnswered, OnlyReadIsLost,
         JudgedByAll, NoResult, ErrorTypes

\* Blocks that were read to the end are the end of what was printed.
LEMMA BlocksAtEnd ==
  ASSUME OutputInv, Communicating, AtEnd
  PROVE  blocks = SubSeq(emitted, lost + 1, Len(emitted))
<1> DEFINE tail == SubSeq(emitted, lost + 1, Len(emitted))
<1>1. /\ Len(emitted) \in Nat /\ taken = Len(emitted) /\ lost \in 0..Len(emitted)
      /\ Len(blocks) = Len(emitted) - lost
  BY DEF OutputInv, OutputTypes, BlocksAreLast, Communicating, AtEnd
<1>2. tail \in Seq(LineKinds) /\ Len(tail) = Len(blocks)
  BY <1>1 DEF OutputInv, OutputTypes
<1>3. \A n \in 1..Len(blocks) : tail[n] = blocks[n]
  BY <1>1 DEF OutputInv, OutputTypes, BlocksAreLast, Communicating
<1> HIDE DEF tail
<1>4. tail = blocks
  BY <1>2, <1>3 DEF OutputInv, OutputTypes
<1> QED
  BY <1>4 DEF tail

LEMMA EmitKeeps == ASSUME NEW l \in LineKinds, OutputInv, Emit(l) PROVE OutputInv'
<1>1. /\ emitted' \in Seq(LineKinds) /\ Len(emitted') = Len(emitted) + 1
      /\ \A n \in 1..Len(emitted) : emitted'[n] = emitted[n]
  BY DEF OutputInv, OutputTypes, Emit
<1>2. OutputTypes'
  BY <1>1 DEF OutputInv, OutputTypes, Emit
<1>3. BlocksAreLast'
  BY <1>1 DEF OutputInv, OutputTypes, BlocksAreLast, Communicating, Emit
<1>4. OverWhenAnswered' /\ OnlyReadIsLost' /\ JudgedByAll'
  BY DEF OutputInv, OutputTypes, Communicating, OverWhenAnswered, OnlyReadIsLost, JudgedByAll, Emit, ErrorTypes
<1> QED
  BY <1>2, <1>3, <1>4 DEF OutputInv

LEMMA ReadBlockKeeps == ASSUME OutputInv, ReadBlock PROVE OutputInv'
<1>1. /\ blocks' \in Seq(LineKinds) /\ Len(blocks') = Len(blocks) + 1
      /\ \A n \in 1..Len(blocks) : blocks'[n] = blocks[n]
      /\ blocks'[Len(blocks) + 1] = emitted[taken + 1]
  BY DEF OutputInv, OutputTypes, ReadBlock
<1>2. OutputTypes'
  BY <1>1 DEF OutputInv, OutputTypes, ReadBlock
<1>3. BlocksAreLast'
  BY <1>1 DEF OutputInv, OutputTypes, BlocksAreLast, Communicating, ReadBlock
<1>4. OverWhenAnswered' /\ OnlyReadIsLost' /\ JudgedByAll'
  BY DEF OutputInv, Communicating, OverWhenAnswered, OnlyReadIsLost, JudgedByAll, ReadBlock
<1> QED
  BY <1>2, <1>3, <1>4 DEF OutputInv

LEMMA ReturnKeeps == ASSUME OutputInv, Return PROVE OutputInv'
<1>1. blocks = emitted
  <2>0. /\ Len(emitted) \in Nat /\ taken = Len(emitted) /\ Len(blocks) = taken
        /\ \A n \in 1..Len(blocks) : blocks[n] = emitted[taken - Len(blocks) + n]
    BY DEF OutputInv, OutputTypes, BlocksAreLast, Communicating, Return, AtEnd
  <2>1. Len(blocks) = Len(emitted) /\ \A n \in 1..Len(blocks) : blocks[n] = emitted[n]
    <3>1. \A n \in 1..Len(blocks) : taken - Len(blocks) + n = n
      BY <2>0
    <3> QED
      BY <2>0, <3>1
  <2>2. blocks \in Seq(LineKinds) /\ emitted \in Seq(LineKinds)
    BY DEF OutputInv, OutputTypes
  <2> QED
    BY <2>1, <2>2
<1>2. /\ result'.code \in ErrorTypes \cup {"ok"} /\ result'.code \notin {"none", "TIMEOUT"}
      /\ result'.text = blocks /\ result' \in [code : ErrorTypes \cup {"ok"}, text : Seq(LineKinds)]
  BY DEF Return, CliCode, ErrorTypes, OutputInv, OutputTypes
<1>3. OutputTypes'
  BY <1>2 DEF OutputInv, OutputTypes, Return
<1>4. BlocksAreLast' /\ OverWhenAnswered' /\ OnlyReadIsLost'
  BY <1>1, <1>2 DEF BlocksAreLast, Communicating, OverWhenAnswered, OnlyReadIsLost, Return, AtEnd
<1>5. JudgedByAll'
  <2>1. emitted' = emitted /\ result'.code \in {"ok", CliCode(Kinds(emitted))}
    BY <1>1 DEF Return
  <2> QED
    BY <2>1 DEF JudgedByAll, ErrorTypes, Kinds
<1> QED
  BY <1>3, <1>4, <1>5 DEF OutputInv

\* A deadline begins with no blocks.
LEMMA DeadlineKeeps == ASSUME OutputInv, Deadline \/ GraceEnds PROVE OutputInv'
<1>1. /\ await \in {"first", "grace"} /\ await' \in {"grace", "drain"} /\ blocks' = <<>>
      /\ lost' = taken
      /\ UNCHANGED <<child, emitted, taken, result>>
  BY DEF Deadline, GraceEnds
<1>2. OutputTypes'
  BY <1>1 DEF OutputInv, OutputTypes
<1>3. BlocksAreLast'
  BY <1>1 DEF OutputInv, OutputTypes, BlocksAreLast, Communicating
<1>4. OverWhenAnswered' /\ OnlyReadIsLost' /\ JudgedByAll'
  BY <1>1 DEF OutputInv, Communicating, OverWhenAnswered, OnlyReadIsLost, JudgedByAll, Kinds
<1> QED
  BY <1>2, <1>3, <1>4 DEF OutputInv

LEMMA GivesUpKeeps == ASSUME OutputInv, DeadlineTooLate \/ DrainFails PROVE OutputInv'
<1>1. /\ await' = "empty" /\ result' = [code |-> "TIMEOUT", text |-> <<>>]
      /\ UNCHANGED <<child, emitted, taken, blocks, lost>>
  BY DEF DeadlineTooLate, DrainFails
<1>2. OutputTypes'
  BY <1>1 DEF OutputInv, OutputTypes, ErrorTypes
<1>3. BlocksAreLast' /\ OverWhenAnswered' /\ OnlyReadIsLost' /\ JudgedByAll'
  BY <1>1 DEF BlocksAreLast, Communicating, OverWhenAnswered, OnlyReadIsLost, JudgedByAll
<1> QED
  BY <1>2, <1>3 DEF OutputInv

LEMMA CollectKeeps == ASSUME OutputInv, Collect PROVE OutputInv'
<1>1. blocks = SubSeq(emitted, lost + 1, Len(emitted))
  BY BlocksAtEnd DEF Collect, Communicating
<1>2. OutputTypes'
  BY DEF OutputInv, OutputTypes, Collect, ErrorTypes
<1>3. BlocksAreLast' /\ OverWhenAnswered'
  BY DEF BlocksAreLast, Communicating, OverWhenAnswered, Collect, AtEnd
<1>4. OnlyReadIsLost' /\ JudgedByAll'
  BY <1>1 DEF OnlyReadIsLost, JudgedByAll, Collect
<1> QED
  BY <1>2, <1>3, <1>4 DEF OutputInv

LEMMA OutputStep == OutputInv /\ [OutputNext]_outputVars => OutputInv'
<1> SUFFICES ASSUME OutputInv, [OutputNext]_outputVars PROVE OutputInv'
  OBVIOUS
<1>1. CASE \E l \in LineKinds : Emit(l)
  BY <1>1, EmitKeeps
<1>2. CASE ChildExits
  BY <1>2 DEF ChildExits, OutputInv, OutputTypes, BlocksAreLast, Communicating, OverWhenAnswered, OnlyReadIsLost,
              JudgedByAll, Kinds
<1>3. CASE ReadBlock \/ Return \/ Collect
  BY <1>3, ReadBlockKeeps, ReturnKeeps, CollectKeeps
<1>4. CASE Deadline \/ GraceEnds \/ DeadlineTooLate \/ DrainFails
  BY <1>4, DeadlineKeeps, GivesUpKeeps
<1>5. CASE UNCHANGED outputVars
  BY <1>5 DEF outputVars, OutputInv, OutputTypes, BlocksAreLast, Communicating, OverWhenAnswered, OnlyReadIsLost,
              JudgedByAll, Kinds
<1> QED
  BY <1>1, <1>2, <1>3, <1>4, <1>5 DEF OutputNext

LEMMA OutputInvariant == OutputSpec => []OutputInv
BY OutputInitially, OutputStep, PTL DEF OutputSpec

\* Whatever a subprocess prints and whenever its deadlines come: a TIMEOUT carries
\* all that was printed after what had been read at the last deadline.
THEOREM OutputTheorem == OutputSpec => []OnlyReadIsLost
<1>1. OutputInv => OnlyReadIsLost
  BY DEF OutputInv
<1> QED
  BY <1>1, OutputInvariant, PTL

\* The result of a command that exits in time is judged by all of its output, so
\* that the line that says why it failed decides.
THEOREM CauseTheorem == OutputSpec => []CauseSurvivesNoise
<1>1. OutputInv => CauseSurvivesNoise
  <2> SUFFICES ASSUME OutputInv, result.code \in ErrorTypes \ {"TIMEOUT"}, emitted # <<>>,
                      NEW cause, cause = emitted[Len(emitted)]
               PROVE  /\ cause = "auth" => result.code = "AUTH_FAILURE"
                      /\ cause = "authz" /\ "auth" \notin Kinds(emitted) => result.code = "AUTHORIZATION"
                      /\ cause = "network" /\ Kinds(emitted) \subseteq {"network", "plain"}
                           => result.code = "NETWORK_TIMEOUT"
    BY DEF CauseSurvivesNoise
  <2>1. cause \in Kinds(emitted)
    BY DEF OutputInv, OutputTypes, Kinds
  <2>2. result.code = CliCode(Kinds(emitted))
    BY DEF OutputInv, JudgedByAll
  <2> QED
    BY <2>1, <2>2 DEF CliCode
<1> QED
  BY <1>1, OutputInvariant, PTL

------------------------------------------------------------------------------
(* The plan and the command.                                               *)

\* README.md:26, for any partitions and offsets: the offsets of a group without
\* members change only when the human runs the command.
THEOREM OnlyHumansTheorem == ResetSpec => OnlyHumansReset
<1>1. [ResetNext]_resetVars => [~active /\ committed' # committed => stage' = "applied"]_resetVars
  <2> SUFFICES ASSUME ResetNext, ~active, committed' # committed PROVE stage' = "applied"
    BY DEF resetVars, group, moves
  <2>1. ~Ask /\ ~DryRun /\ ~Regroups
    BY DEF Ask, DryRun, Runs, BuildArgv, Regroups, group
  <2>2. \A p \in Parts : ~Produced(p) /\ ~Trimmed(p) /\ ~Committed(p)
    BY DEF Produced, Trimmed, Committed
  <2> QED
    BY <2>1, <2>2 DEF ResetNext, Apply
<1> QED
  BY <1>1, PTL DEF ResetSpec, OnlyHumansReset

\* The plan of p is what the command still does, unless what the strategy refers to
\* has moved.
PlanHolds(p) ==
  LET s == request.strategy
  IN  /\ s = "to-latest" /\ p \notin produced => proposed.to[p] = logEnd[p]
      /\ s = "to-earliest" /\ p \notin trimmed => proposed.to[p] = logStart[p]
      /\ s = "to-offset" /\ p \notin trimmed /\ ~(p \in produced /\ Clamped(p)) =>
           proposed.to[p] = Within(request.value, p)
      /\ s = "shift-by" /\ p \notin trimmed \cup recommitted /\ ~(p \in produced /\ Clamped(p)) =>
           proposed.to[p] = Within(base[p] + request.value, p)

\* Between the dry run and the command.
PlanInv ==
  stage = "planned" =>
    /\ command = BuildArgv(request, TRUE)
    /\ request.strategy \in Strategies
    /\ proposed.listed \in {{}, Parts}
    /\ ~regrouped => IF active THEN proposed.listed = {} ELSE proposed.listed = Parts
    /\ \A p \in Parts : p \notin recommitted => committed[p] = base[p]
    /\ \A p \in proposed.listed : PlanHolds(p)

ResetInv == ResetTypeOK /\ PlanInv /\ CommandDoesThePlan

LEMMA ResetInitially == ResetInit => ResetInv
<1> SUFFICES ASSUME ResetInit PROVE ResetInv
  OBVIOUS
<1>1. /\ logStart \in Offsets /\ logEnd \in Offsets /\ committed \in Offsets
      /\ base \in Offsets /\ outcome \in Offsets
  BY OffsetsAssumption DEF ResetInit, Offsets
<1>2. request \in Requests /\ proposed \in [listed : SUBSET Parts, to : Offsets]
  BY DEF ResetInit, NoRequest, Requests, NoPlan, Offsets
<1>3. ResetTypeOK
  BY <1>1, <1>2 DEF ResetInit, ResetTypeOK
<1>4. PlanInv /\ CommandDoesThePlan
  BY DEF ResetInit, PlanInv, CommandDoesThePlan
<1> QED
  BY <1>3, <1>4 DEF ResetInv

LEMMA AskKeeps == ASSUME ResetInv, Ask PROVE ResetInv'
<1>1. ResetTypeOK'
  <2>1. request' \in Requests /\ stage' \in {"asked", "refused"} /\ (stage' = "asked" => Valid(request'))
    BY DEF Ask
  <2>2. UNCHANGED <<logStart, logEnd, committed, active, proposed, base, outcome, produced, trimmed,
                    recommitted, regrouped>>
    BY DEF Ask, group, moves
  <2>3. stage' = "asked" => /\ request'.strategy \in Strategies
                            /\ request'.strategy \in {"to-offset", "shift-by"} => request'.value \in Values
    BY <2>1 DEF Valid, Requests
  <2> QED
    BY <2>1, <2>2, <2>3 DEF ResetInv, ResetTypeOK
<1>2. PlanInv' /\ CommandDoesThePlan'
  BY DEF Ask, PlanInv, CommandDoesThePlan
<1> QED
  BY <1>1, <1>2 DEF ResetInv

\* The dry run proposes what the command would do at this moment.
LEMMA DryRunKeeps == ASSUME ResetInv, DryRun PROVE ResetInv'
<1> DEFINE dry == BuildArgv(request, FALSE)
<1>1. /\ committed' = committed /\ base' = committed /\ stage' = "planned"
      /\ UNCHANGED <<logStart, logEnd, active, request, outcome>>
      /\ produced' = {} /\ trimmed' = {} /\ recommitted' = {} /\ regrouped' = FALSE
      /\ proposed' = Table(dry) /\ command' = BuildArgv(request, TRUE)
  BY DEF DryRun, Runs, BuildArgv
<1>2. /\ request.strategy \in Strategies
      /\ request.strategy \in {"to-offset", "shift-by"} => request.value \in Int
      /\ logStart \in Offsets /\ logEnd \in Offsets /\ committed \in Offsets
  BY OffsetsAssumption DEF ResetInv, ResetTypeOK, DryRun
<1>3. dry.how = request.strategy /\ (dry.how \in {"to-offset", "shift-by"} => dry.value = request.value)
  BY DEF BuildArgv
<1> HIDE DEF dry
<1>4. \A p \in Parts : Target(dry, p) \in Int
  BY <1>2, <1>3 DEF Target, Within, Strategies, Offsets
<1>5. proposed' \in [listed : SUBSET Parts, to : Offsets]
  BY <1>1, <1>4 DEF Table, NoPlan, Offsets
<1>6. ResetTypeOK'
  BY <1>1, <1>2, <1>5 DEF ResetInv, ResetTypeOK, DryRun
<1>7. \A p \in proposed'.listed : PlanHolds(p)'
  <2> SUFFICES ASSUME NEW p \in proposed'.listed PROVE PlanHolds(p)'
    OBVIOUS
  <2>1. p \in Parts /\ proposed'.to[p] = Target(dry, p)
    BY <1>1 DEF Table, NoPlan
  <2> QED
    BY <1>1, <1>2, <1>3, <2>1 DEF PlanHolds, Target, Within
<1>8. PlanInv'
  BY <1>1, <1>2, <1>7 DEF PlanInv, Table, NoPlan
<1>9. CommandDoesThePlan'
  BY <1>1 DEF CommandDoesThePlan
<1> QED
  BY <1>6, <1>8, <1>9 DEF ResetInv

\* The human's run of the command, at the moment it happens.
LEMMA ApplyKeeps == ASSUME ResetInv, Apply PROVE ResetInv'
<1>1. /\ stage = "planned" /\ stage' = "applied" /\ outcome' = committed'
      /\ UNCHANGED <<logStart, logEnd, active, request, proposed, command, base, produced, trimmed,
                     recommitted, regrouped>>
  BY DEF Apply, moves
<1>2. committed' = IF active THEN committed ELSE [p \in Parts |-> Target(command, p)]
  BY <1>1 DEF Apply, Runs, ResetInv, PlanInv, BuildArgv
<1>3. /\ request.strategy \in Strategies
      /\ request.strategy \in {"to-offset", "shift-by"} => request.value \in Int
      /\ command.how = request.strategy
      /\ request.strategy \in {"to-offset", "shift-by"} => command.value = request.value
      /\ logStart \in Offsets /\ logEnd \in Offsets /\ committed \in Offsets
  <2>1. command = BuildArgv(request, TRUE) /\ request.strategy \in Strategies
    BY <1>1 DEF ResetInv, PlanInv
  <2>2. /\ request.strategy \in {"to-offset", "shift-by"} => request.value \in Int
        /\ logStart \in Offsets /\ logEnd \in Offsets /\ committed \in Offsets
    BY <1>1, OffsetsAssumption DEF ResetInv, ResetTypeOK
  <2> QED
    BY <2>1, <2>2 DEF BuildArgv
<1>4. committed' \in Offsets
  BY <1>2, <1>3 DEF Target, Within, Strategies, Offsets
<1>5. ResetTypeOK'
  BY <1>1, <1>4 DEF ResetInv, ResetTypeOK
<1>6. PlanInv'
  BY <1>1 DEF PlanInv
<1>7. ASSUME NEW p \in proposed.listed PROVE Spoils(p)' \/ outcome'[p] = proposed'.to[p]
  <2> SUFFICES ASSUME ~Spoils(p) PROVE outcome'[p] = proposed.to[p]
    BY <1>1 DEF Spoils, Clamped
  <2>1. p \in Parts /\ PlanHolds(p) /\ ~active
    BY <1>1 DEF ResetInv, ResetTypeOK, PlanInv, Spoils
  <2>2. p \notin recommitted => committed[p] = base[p]
    BY <1>1, <2>1 DEF ResetInv, PlanInv
  <2>3. proposed.to[p] = Target(command, p)
    BY <1>3, <2>1, <2>2 DEF PlanHolds, Spoils, Target, Strategies
  <2> QED
    BY <1>1, <1>2, <2>1, <2>3
<1>8. ASSUME NEW p \in Parts, p \notin proposed.listed
      PROVE  regrouped' \/ p \in recommitted' \/ outcome'[p] = base'[p]
  BY <1>1, <1>2, <1>8 DEF ResetInv, PlanInv
<1>9. CommandDoesThePlan'
  BY <1>1, <1>7, <1>8 DEF CommandDoesThePlan
<1> QED
  BY <1>5, <1>6, <1>9 DEF ResetInv

\* An offset that was in range stays so when the log grows.
LEMMA ProducedKeeps == ASSUME NEW q \in Parts, ResetInv, Produced(q) PROVE ResetInv'
<1>1. /\ stage \in {"asked", "planned"}
      /\ logEnd' = [logEnd EXCEPT ![q] = @ + 1] /\ produced' = produced \cup {q}
      /\ UNCHANGED <<logStart, committed, active, stage, request, proposed, command, base, outcome,
                     trimmed, recommitted, regrouped>>
  BY DEF Produced, Moving, Rest
<1>2. ResetTypeOK'
  BY <1>1 DEF ResetInv, ResetTypeOK, Offsets
<1>3. ASSUME stage = "planned", NEW p \in proposed.listed PROVE PlanHolds(p)'
  <2>1. PlanHolds(p) /\ p \in Parts
    BY <1>3 DEF ResetInv, ResetTypeOK, PlanInv
  <2>2. /\ logStart[p] \in Int /\ logEnd[p] \in Int /\ base[p] \in Int
        /\ request.strategy \in {"to-offset", "shift-by"} => request.value \in Int
    BY <1>3, <2>1, OffsetsAssumption DEF ResetInv, ResetTypeOK, Offsets
  <2>3. logEnd'[p] = IF p = q THEN logEnd[p] + 1 ELSE logEnd[p]
    BY <1>1, <2>1 DEF ResetInv, ResetTypeOK, Offsets
  <2>4. \A o \in Int : Within(o, p)' = Within(o, p) \/ (p = q /\ Within(o, p) # o)
    BY <1>1, <2>2, <2>3 DEF Within
  <2>5. Clamped(p)' = Clamped(p)
    BY <1>1 DEF Clamped
  <2> HIDE DEF Within
  <2> QED
    BY <1>1, <2>1, <2>2, <2>3, <2>4, <2>5 DEF PlanHolds, Clamped
<1>4. PlanInv'
  BY <1>1, <1>3 DEF ResetInv, PlanInv
<1>5. CommandDoesThePlan'
  BY <1>1 DEF CommandDoesThePlan
<1> QED
  BY <1>2, <1>4, <1>5 DEF ResetInv

LEMMA TrimmedKeeps == ASSUME NEW q \in Parts, ResetInv, Trimmed(q) PROVE ResetInv'
<1>1. /\ stage \in {"asked", "planned"}
      /\ logStart' = [logStart EXCEPT ![q] = @ + 1] /\ trimmed' = trimmed \cup {q}
      /\ UNCHANGED <<logEnd, committed, active, stage, request, proposed, command, base, outcome,
                     produced, recommitted, regrouped>>
  BY DEF Trimmed, Moving, Rest
<1>2. ResetTypeOK'
  BY <1>1 DEF ResetInv, ResetTypeOK, Offsets
<1>3. ASSUME stage = "planned", NEW p \in proposed.listed PROVE PlanHolds(p)'
  <2>1. PlanHolds(p) /\ p \in Parts
    BY <1>3 DEF ResetInv, ResetTypeOK, PlanInv
  <2>2. p \in trimmed' \/ logStart'[p] = logStart[p]
    BY <1>1, <2>1 DEF ResetInv, ResetTypeOK, Offsets
  <2> QED
    BY <1>1, <2>1, <2>2 DEF PlanHolds, Clamped, Within
<1>4. PlanInv'
  BY <1>1, <1>3 DEF ResetInv, PlanInv
<1>5. CommandDoesThePlan'
  BY <1>1 DEF CommandDoesThePlan
<1> QED
  BY <1>2, <1>4, <1>5 DEF ResetInv

LEMMA GroupMovesKeep ==
  ASSUME ResetInv, Regroups \/ \E q \in Parts : Committed(q) PROVE ResetInv'
<1>1. /\ stage \in {"asked", "planned"}
      /\ UNCHANGED <<logStart, logEnd, stage, request, proposed, command, base, outcome, produced, trimmed>>
      /\ regrouped' \/ (active' = active /\ regrouped' = regrouped)
      /\ active' \in BOOLEAN /\ regrouped' \in BOOLEAN
      /\ recommitted \subseteq recommitted' /\ recommitted' \subseteq Parts
      /\ committed' \in Offsets /\ \A p \in Parts : p \in recommitted' \/ committed'[p] = committed[p]
  <2>1. active \in BOOLEAN /\ regrouped \in BOOLEAN /\ recommitted \subseteq Parts /\ committed \in Offsets
    BY DEF ResetInv, ResetTypeOK
  <2>2. CASE Regroups
    BY <2>1, <2>2 DEF Regroups, Moving, Rest
  <2>3. ASSUME NEW q \in Parts, Committed(q) PROVE <1>1!:
    BY <2>1, <2>3 DEF Committed, Moving, Rest, Offsets
  <2> QED
    BY <2>2, <2>3
<1>2. ResetTypeOK'
  BY <1>1 DEF ResetInv, ResetTypeOK
<1>3. ASSUME stage = "planned", NEW p \in proposed.listed PROVE PlanHolds(p)'
  BY <1>1, <1>3 DEF ResetInv, PlanInv, PlanHolds, Clamped, Within
<1>4. PlanInv'
  BY <1>1, <1>3 DEF ResetInv, PlanInv
<1>5. CommandDoesThePlan'
  BY <1>1 DEF CommandDoesThePlan
<1> QED
  BY <1>2, <1>4, <1>5 DEF ResetInv

LEMMA ResetStep == ResetInv /\ [ResetNext]_resetVars => ResetInv'
<1> SUFFICES ASSUME ResetInv, [ResetNext]_resetVars PROVE ResetInv'
  OBVIOUS
<1>1. CASE UNCHANGED resetVars
  <2>1. UNCHANGED <<committed, logStart, logEnd, active, stage, request, proposed, command, base, outcome,
                    produced, trimmed, recommitted, regrouped>>
    BY <1>1 DEF resetVars, group, moves
  <2>2. ResetTypeOK'
    BY <2>1 DEF ResetInv, ResetTypeOK
  <2>3. PlanInv'
    BY <2>1 DEF ResetInv, PlanInv, PlanHolds, Clamped, Within
  <2>4. CommandDoesThePlan'
    BY <2>1 DEF ResetInv, CommandDoesThePlan, Spoils, Clamped, Within
  <2> QED
    BY <2>2, <2>3, <2>4 DEF ResetInv
<1> QED
  BY <1>1, AskKeeps, DryRunKeeps, ApplyKeeps, GroupMovesKeep, ProducedKeeps, TrimmedKeeps DEF ResetNext

LEMMA ResetInvariant == ResetSpec => []ResetInv
BY ResetInitially, ResetStep, PTL DEF ResetSpec

\* For any number of partitions, any offsets and however long the human waits: the
\* command does what the plan said but where the strategy refers to something that
\* has moved since.
THEOREM PlanTheorem == ResetSpec => []CommandDoesThePlan
<1>1. ResetInv => CommandDoesThePlan
  BY DEF ResetInv
<1> QED
  BY <1>1, ResetInvariant, PTL

------------------------------------------------------------------------------
(* What is made of the log directories.                                    *)

\* rsplit takes a name apart where it was put together, whatever pieces it has.
LEMMA SplitPrinted ==
  ASSUME NEW r, r.topic \in Seq(STRING), r.partition \in STRING
  PROVE  Split(Printed(r)) = [topic |-> r.topic, partition |-> r.partition]
<1> DEFINE text == Append(r.topic, r.partition)
           name == SubSeq(text, 1, Len(text) - 1)
<1>1. /\ text \in Seq(STRING) /\ Len(text) = Len(r.topic) + 1 /\ Len(r.topic) \in Nat
      /\ text[Len(text)] = r.partition /\ \A n \in 1..Len(r.topic) : text[n] = r.topic[n]
  OBVIOUS
<1> HIDE DEF text
<1>2. name \in Seq(STRING) /\ Len(name) = Len(r.topic) /\ \A n \in 1..Len(r.topic) : name[n] = r.topic[n]
  BY <1>1
<1> HIDE DEF name
<1>3. name = r.topic
  BY <1>2
<1> QED
  BY <1>1, <1>3 DEF Split, Printed, text, name

DirsInv ==
  /\ layout \in Layouts
  /\ dirsReply \in [code : DirsCode, stuck : {dirsReply.stuck}, disk_errors : {dirsReply.disk_errors}]
  /\ StuckMovesListed

LEMMA StuckAreWanted ==
  ASSUME layout \in Layouts
  PROVE  stuck_reassignments =
           {[broker |-> r.broker, dir |-> r.dir,
             name |-> [topic |-> r.topic, partition |-> r.partition]] :
              r \in {q \in layout.replicas : q.future /\ topic_filter \in {NoFilter, q.topic}}}
<1>1. \A r \in layout.replicas :
        Split(Printed(r)) = [topic |-> r.topic, partition |-> r.partition]
  BY SplitPrinted, NamesAssumption
<1>2. \A r \in layout.replicas : Wanted(r) <=> topic_filter \in {NoFilter, r.topic}
  BY <1>1 DEF Wanted
<1>3. {q \in layout.replicas : q.future /\ Wanted(q)}
        = {q \in layout.replicas : q.future /\ topic_filter \in {NoFilter, q.topic}}
  BY <1>2
<1> QED
  BY <1>1, <1>3 DEF stuck_reassignments

\* A topic's name may have any number of dashes and numbers: its stuck moves are listed
\* under it, and a filter takes in no other topic.
THEOREM StuckTheorem == DirsSpec => []StuckMovesListed
<1>1. DirsInit => DirsInv
  BY DEF DirsInit, DirsInv, DirsCode, StuckMovesListed
<1>2. DirsInv /\ [DirsNext]_dirsVars => DirsInv'
  <2> SUFFICES ASSUME DirsInv, [DirsNext]_dirsVars PROVE DirsInv'
    OBVIOUS
  <2>1. CASE DescribeLogDirs
    BY <2>1, StuckAreWanted DEF DescribeLogDirs, DirsInv, DirsCode, StuckMovesListed, disk_errors
  <2>2. CASE NoJson
    BY <2>2 DEF NoJson, DirsInv, DirsCode, StuckMovesListed
  <2>3. CASE UNCHANGED dirsVars
    BY <2>3 DEF dirsVars, DirsInv, DirsCode, StuckMovesListed
  <2> QED
    BY <2>1, <2>2, <2>3 DEF DirsNext
<1>3. DirsInv => StuckMovesListed
  BY DEF DirsInv
<1> QED
  BY <1>1, <1>2, <1>3, PTL DEF DirsSpec

------------------------------------------------------------------------------
(* The tools together.                                                     *)

\* Whichever component is looked at, each of those with a type invariant is in an
\* initial state of its own.
LEMMA EachStarts ==
  ToolsInit => /\ Init /\ AccessInit /\ OutputInit /\ ResetInit
               /\ ReadsInit /\ LookupInit /\ GroupInit /\ PoolInit
<1> SUFFICES ASSUME ToolsInit
             PROVE  /\ Init /\ AccessInit /\ OutputInit /\ ResetInit
                    /\ ReadsInit /\ LookupInit /\ GroupInit /\ PoolInit
  OBVIOUS
<1>1. \A c \in Components : StandsStill(c) \/ Starts(c)
  BY DEF ToolsInit
<1>2. Init /\ AccessInit
  BY <1>1 DEF Components, StandsStill, Starts
<1>3. OutputInit /\ ResetInit
  BY <1>1 DEF Components, StandsStill, Starts
<1>4. ReadsInit /\ LookupInit
  BY <1>1 DEF Components, StandsStill, Starts
<1>5. GroupInit /\ PoolInit
  BY <1>1 DEF Components, StandsStill, Starts
<1> QED
  BY <1>2, <1>3, <1>4, <1>5

\* A step is a step of each of them, or leaves it alone.
LEMMA EachMoves ==
  [ToolsNext]_all =>
    /\ [Next]_vars /\ [AccessNext]_accessVars /\ [OutputNext]_outputVars
    /\ [ResetNext]_resetVars /\ [ReadsNext]_readVars /\ [LookupNext]_lookupVars
    /\ [GroupNext]_groupVars /\ [PoolNext]_poolVars
BY DEF ToolsNext, Moves, all

\* The components share no state: together each is what it is alone.
LEMMA EachComponent ==
  ToolsSpec => /\ Spec /\ AccessSpec /\ OutputSpec /\ ResetSpec
               /\ ReadsSpec /\ LookupSpec /\ GroupSpec /\ PoolSpec
BY EachStarts, EachMoves, PTL
   DEF ToolsSpec, Spec, AccessSpec, OutputSpec, ResetSpec, ReadsSpec, LookupSpec, GroupSpec, PoolSpec

\* Whichever component is looked at keeps its types.
THEOREM ToolsTypesTheorem == ToolsSpec => []ToolsTypeOK
<1>1. AccessInv => AccessTypeOK
  BY DEF AccessInv
<1>2. OutputInv => OutputTypeOK
  BY DEF OutputInv, OutputTypes, Communicating, OverWhenAnswered, OutputTypeOK
<1>3. ResetInv => ResetTypeOK
  BY DEF ResetInv
<1>4. ReadsInv => ReadsTypeOK
  BY DEF ReadsInv
<1>5. LookupInv => LookupTypeOK
  BY DEF LookupInv
<1>6. (/\ TypeOK /\ AccessTypeOK /\ OutputTypeOK /\ ResetTypeOK
       /\ ReadsTypeOK /\ LookupTypeOK /\ GroupTypeOK /\ PoolTypeOK)
        => ToolsTypeOK
  BY DEF ToolsTypeOK
<1> QED
  BY <1>1, <1>2, <1>3, <1>4, <1>5, <1>6, EachComponent, ParserTypesTheorem, AccessInvariant,
     OutputInvariant, ResetInvariant, ReadsInvariant, LookupInvariant, TypesTheorem, PoolTypesTheorem, PTL
=============================================================================
