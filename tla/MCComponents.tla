---------------------------- MODULE MCComponents ----------------------------
(* The components that share no state with one another, for TLC: a          *)
(* behaviour is a behaviour of one of them, and the rest stand still.       *)
EXTENDS TLC, MemoTiers, MemoRegistry, AiInstallFiles, FsExtract, FsTransfer, FsTrash, FsNames,
        FetchRequests, FetchHandle, AiSession, AiHub, O11yMetrics, O11ySpans, O11yBridge

CONSTANTS m1, m2, c1, c2, c3   \* installed files and their contents

VARIABLE part

\* Installing files: each content's size, and what a listing selects.
MCSizeOf == [c \in Contents |-> IF c = c3 THEN 2 ELSE 1]
MCListings == {(m1 :> c1), (m1 :> c2), (m1 :> c1 @@ m2 :> c3)}

\* Archives: the paths of their entries.
MCPaths == {<<"d">>, <<"d", "e">>, <<"a">>, <<"b">>}

\* A copied tree, and a file its destination already has.
MCTree == << [at |-> <<"a">>, kind |-> "file", matches |-> TRUE],
             [at |-> <<"b">>, kind |-> "file", matches |-> FALSE],
             [at |-> <<"p">>, kind |-> "special", matches |-> TRUE],
             [at |-> <<"x", "a">>, kind |-> "file", matches |-> TRUE],
             [at |-> <<"x", "c">>, kind |-> "file", matches |-> TRUE] >>
MCExisting == {<<"dest", "c">>}

\* The accelerators a program asks for.
MCRequested == {<<"Auto">>, <<"CUDA", "WebGPU", "CPU", "CoreML">>}

\* A repository with three commits: files move between pages, change, go.
MCRepo == <<"o", "r">>
MCUrls == {<<"o", "r", "tree", "main", "cuda", "13">>, <<"o", "r", "tree", "main", "models">>,
           <<"o", "r", "tree", "main", "..">>, <<"o", "x", "tree", "main", "a", "1">>}
FileAt(p, l, h) == [path |-> p, file |-> TRUE, platform |-> l, hash |-> h]
Dir(p) == [path |-> p, file |-> FALSE, platform |-> "none", hash |-> 1]
MCPages == <<
   <<{FileAt("a", "mac", 1), Dir("d")}, {FileAt("b", "linux", 1)}, {FileAt("c", "none", 1)}>>,
   <<{FileAt("a", "mac", 2)}, {FileAt("b", "mac", 1), FileAt("c", "none", 0)}>>,
   <<{FileAt("a", "mac", 2), FileAt("c", "linux", 2)}>> >>

\* Tags written in two orders, and bucket bounds.
MCTags == {<<>>, <<"a", "b">>, <<"b", "a">>}
MCLayouts == {<<1>>}
MCDefaultBounds == <<2>>

-----------------------------------------------------------------------------
MCInit ==
    /\ part \in {"tiers", "registry", "files", "extract", "transfer", "trash", "names", "requests",
                 "handle", "session", "hub", "samples", "instruments", "spans", "bridge"}
    /\ Init /\ RegistryInit /\ FilesInit /\ TrashInit /\ NamesInit
    /\ ExtractInit
    /\ part # "extract" => options = [total |-> Unlimited, file |-> Unlimited,
                                      entries |-> Unlimited, symlinks |-> TRUE]
    /\ TransferInit
    /\ part # "transfer" => \A o \in DOMAIN how : ~how[o]
    /\ RequestsInit /\ HandleInit /\ SessionInit /\ HubInit
    /\ MetricsInit /\ SpansInit /\ BridgeInit

Still(name, v) == IF part = name THEN TRUE ELSE UNCHANGED v
Others ==
    /\ UNCHANGED part
    /\ Still("tiers", vars) /\ Still("registry", registryVars) /\ Still("files", filesVars)
    /\ Still("extract", extractVars) /\ Still("transfer", transferVars)
    /\ Still("trash", trashVars) /\ Still("names", namesVars)
    /\ Still("requests", requestVars) /\ Still("handle", handleVars)
    /\ Still("session", sessionVars) /\ Still("hub", hubVars)
    /\ Still("samples", seriesVars) /\ Still("instruments", instrumentVars)
    /\ Still("spans", spanVars) /\ Still("bridge", bridgeVars)

TiersStep == part = "tiers" /\ Next /\ Others
RegistryStep == part = "registry" /\ RegistryNext /\ Others
FilesStep == part = "files" /\ FilesNext /\ Others
ExtractStep == part = "extract" /\ ExtractNext /\ Others
TransferStep == part = "transfer" /\ TransferNext /\ Others
TrashStep == part = "trash" /\ TrashNext /\ Others
NamesStep == part = "names" /\ NamesNext /\ Others
RequestsStep == part = "requests" /\ RequestsNext /\ Others
HandleStep == part = "handle" /\ HandleNext /\ Others
SessionStep == part = "session" /\ SessionNext /\ Others
HubStep == part = "hub" /\ HubNext /\ Others
MetricsStep == part \in {"samples", "instruments"} /\ MetricsNext /\ Others
SpansStep == part = "spans" /\ SpansNext /\ Others
BridgeStep == part = "bridge" /\ BridgeNext /\ Others

MCNext ==
    \/ TiersStep \/ RegistryStep \/ FilesStep \/ ExtractStep \/ TransferStep \/ TrashStep
    \/ NamesStep \/ RequestsStep \/ HandleStep \/ SessionStep \/ HubStep \/ MetricsStep
    \/ SpansStep \/ BridgeStep

MCVars == <<part, vars, registryVars, filesVars, extractVars, transferVars, trashVars, namesVars,
            requestVars, handleVars, sessionVars, hubVars, metricVars, spanVars, bridgeVars>>
MCSpec == MCInit /\ [][MCNext]_MCVars

\* The threads, processes and handles of every component are p and q.
Alike == Permutations(Procs)
=============================================================================
