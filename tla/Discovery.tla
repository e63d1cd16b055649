------------------------------- MODULE Discovery -------------------------------
(***************************************************************************)
(* What the user's and the workspace's files define, as it is found when a  *)
(* workspace opens: agents and skills (internal/agents/manager.go,          *)
(* internal/skills/provider.go, skill.go), workers                          *)
(* (internal/workers/worker.go), instructions (internal/memory/memory.go)   *)
(* and the MCP servers of the configuration (internal/tools/mcp.go).        *)
(*                                                                         *)
(* A behaviour is one look at files that may be any of the bounded ones.    *)
(***************************************************************************)
EXTENDS Naturals, Sequences, SequencesExt, FiniteSets

CONSTANTS BuiltIn, Found, \* names of agents (or skills): built in, of the user's files
          MaxWalked,      \* bound: files of a directory
          MaxContent,     \* bound: the length of a file's content
          MaxDefinition,  \* bound: the lines of a definition
          MaxAncestors,   \* directories searched for the root of the repository
          MaxChain        \* bound: directories above and with the workspace

VARIABLE looked \* what was looked at

discoveryVars == <<looked>>

NotLooked == [what |-> "nothing"]

DiscoveryInit == looked = NotLooked

LooksAt(files) == looked' = files

Looked(what) == looked.what = what

-------------------------------------------------------------------------------
(* Agents and skills.  A search path is relative, or the user's; a file of a *)
(* directory, in the order of the walk, can't be read or understood, or      *)
(* names what it defines.                                                    *)

Names == BuiltIn \cup Found
Unreadable == "unreadable"
Malformed == "malformed"
Walked == BoundedSeq(Names \cup {Unreadable, Malformed}, MaxWalked)
SearchPaths == [relative : BOOLEAN, files : Walked]

ScansFor(paths, trusted) == LooksAt([what |-> "paths", paths |-> paths, trusted |-> trusted])

(* filterTrusted: paths into the workspace count when it is trusted.         *)
Trusted(s) == SelectSeq(s.paths, LAMBDA p : s.trusted \/ ~p.relative)

(* The files of all the directories, each with its place.                    *)
FilesOf(s) ==
    LET dirs == Trusted(s)
    IN FlattenSeq([d \in DOMAIN dirs |-> [f \in DOMAIN dirs[d].files |-> [holds |-> dirs[d].files[f], at |-> <<d, f>>]]])

NothingFound == [known |-> [n \in Names |-> IF n \in BuiltIn THEN "built in" ELSE "none"], reported |-> {}]

(* One file: what it defines joins, or takes the place of an earlier file's, *)
(* but not of what is built in.  A skill that can't be read is passed over.  *)
TakesAll(found, file) == [found EXCEPT !.known[file.holds] = file.at]
TakesName(found, file) ==
    IF file.holds \in BuiltIn THEN [found EXCEPT !.reported = @ \cup {file.at}]
    ELSE [found EXCEPT !.known[file.holds] = file.at]

LoadFile(found, file, skills) ==
    CASE file.holds = Unreadable -> IF skills THEN found ELSE [found EXCEPT !.reported = @ \cup {file.at}]
      [] file.holds = Malformed -> [found EXCEPT !.reported = @ \cup {file.at}]
      [] OTHER -> TakesName(found, file)

Discovered(s, skills) ==
    FoldLeft(LAMBDA found, file : LoadFile(found, file, skills), NothingFound, FilesOf(s))

-------------------------------------------------------------------------------
(* ContentHash and hashDir: what is hashed of the files of a skill or a      *)
(* worker, in the order of their names: the name, a zero byte, the size, a   *)
(* zero byte, the content.                                                   *)
Zero == 100
File1 == 101
File2 == 102
Bytes == {Zero, File2, 0} \* a content may look like the head of the next file; 0 .. MaxContent are sizes

Bundle(files) == LooksAt([what |-> "bundle", files |-> files])

Bundles ==
    LET Contents(most) == BoundedSeq(Bytes, most)
        File(name, content) == [name |-> name, content |-> content]
    IN {<<File(File1, c)>> : c \in Contents(MaxContent)}
         \cup {<<File(File2, c)>> : c \in Contents(1)}
         \cup {<<File(File1, c), File(File2, d)>> : c \in Contents(MaxContent), d \in Contents(1)}

HeadNoSize(file) == <<file.name, Zero>>
HeadOf(file) == <<file.name, Zero, Len(file.content), Zero>>

Hashed(files) == FoldLeft(LAMBDA s, file : s \o HeadOf(file) \o file.content, <<>>, files)

-------------------------------------------------------------------------------
(* Workers.  A line of WORKER.md is blank, "---", text that begins with it,  *)
(* or other text; the frontmatter is between the first two of the former.    *)

LineKinds == {"blank", "fence", "rule", "text"}
Fences == {"fence", "rule"}

Definition(lines) == LooksAt([what |-> "definition", lines |-> lines])

NoSplit == [ok |-> FALSE]
FencesOf(lines) == {i \in DOMAIN lines : lines[i] \in Fences}

EndsAtLast(lines, start) == CHOOSE i \in FencesOf(lines) : \A j \in FencesOf(lines) : j <= i
EndsAtNext(lines, start) == CHOOSE i \in FencesOf(lines) : i > start /\ \A j \in FencesOf(lines) : j > start => i <= j

(* split: blank lines may come first.                                        *)
Split(lines) ==
    LET written == {i \in DOMAIN lines : lines[i] # "blank"}
        start == CHOOSE i \in written : \A j \in written : i <= j
    IN IF written = {} \/ start \notin FencesOf(lines) \/ FencesOf(lines) = {start} THEN NoSplit
       ELSE LET end == EndsAtNext(lines, start)
            IN [ok |-> TRUE, frontmatter |-> SubSeq(lines, start + 1, end - 1),
                body |-> SubSeq(lines, end + 1, Len(lines))]

(* What a definition says: a field holds one of these, the first by default. *)
Fields == [directory |-> {"named", "misnamed"}, name |-> {"", "directory's", "other"}, body |-> {"text", "empty"},
         schedule |-> {"parses", "fails"}, timeout |-> {"", "20m", "0s", "soon"}, turns |-> {"0", "5", "-1"},
         cost |-> {"0", "5", "-1"}, overlap |-> {"", "skip", "queue"}, catchUp |-> {"", "none", "once", "twice"},
         files |-> {"hashed", "unhashed"}, permissions |-> BoundedSeq({"good", "bad"}, 2)]

PlainWorker == [directory |-> "named", name |-> "", body |-> "text", schedule |-> "parses", timeout |-> "", turns |-> "0",
          cost |-> "0", overlap |-> "", catchUp |-> "", files |-> "hashed", permissions |-> <<>>]

(* Those that differ from a plain one in at most two fields.                 *)
Definitions ==
    UNION {{[PlainWorker EXCEPT ![f] = v, ![g] = u] : v \in Fields[f], u \in Fields[g]} : f, g \in DOMAIN Fields}

(* Load: everything that is wrong is reported, and what could be read kept;  *)
(* nothing is, when the file or its frontmatter can't be read.               *)
Wrong(d) ==
    (IF d.directory = "misnamed" THEN {"directory"} ELSE {})
      \cup (IF d.name = "other" THEN {"name"} ELSE {})
      \cup (IF d.body = "empty" THEN {"body"} ELSE {})
      \cup (IF d.schedule = "fails" THEN {"schedule"} ELSE {})
      \cup (IF "bad" \in ToSet(d.permissions) THEN {"permissions"} ELSE {})
      \cup (IF d.timeout \in {"0s", "soon"} THEN {"timeout"} ELSE {})
      \cup (IF "-1" \in {d.turns, d.cost} THEN {"limits"} ELSE {})
      \cup (IF d.overlap = "queue" THEN {"overlap"} ELSE {})
      \cup (IF d.catchUp = "twice" THEN {"catchUp"} ELSE {})
      \cup (IF d.files = "unhashed" THEN {"files"} ELSE {})

LoadWorker(d) ==
    [overlap |-> IF d.overlap = "" THEN "skip" ELSE d.overlap,
     catchUp |-> IF d.catchUp = "" THEN "none" ELSE d.catchUp,
     permissions |-> SelectSeq(d.permissions, LAMBDA p : p = "good"), wrong |-> Wrong(d)]

(* An entry of a directory of workers: not a directory, or one without a     *)
(* WORKER.md, with one that can't be read or understood, or with one that    *)
(* can.                                                                      *)
Unusable == {[is |-> kind] : kind \in {"file", "other", Unreadable, Malformed}}
Defined(ds) == {[is |-> "defined", def |-> d] : d \in ds}
FewEntries == Unusable \cup Defined({PlainWorker, [PlainWorker EXCEPT !.schedule = "fails"]})

(* A directory of workers there may be none of, or that can't be read.       *)
Roots == {[there |-> t, entries |-> <<>>] : t \in {"missing", Unreadable}}
            \cup {[there |-> "yes", entries |-> es] : es \in BoundedSeq(FewEntries, MaxWalked)}

WorkersIn(roots) == LooksAt([what |-> "workers", roots |-> roots])

(* Discover. *)
CountsError(found) == [found EXCEPT !.errors = @ + 1]

TakeEntry(found, e) ==
    CASE e.is \in {Unreadable, Malformed} -> CountsError(found)
      [] e.is = "defined" -> [found EXCEPT !.workers = Append(@, LoadWorker(e.def))]
      [] OTHER -> found

TakeRoot(found, root) ==
    CASE root.there = Unreadable -> CountsError(found)
      [] root.there = "missing" -> found
      [] OTHER -> FoldLeft(TakeEntry, found, root.entries)

Discover(roots) == FoldLeft(TakeRoot, [workers |-> <<>>, errors |-> 0], roots)

-------------------------------------------------------------------------------
(* Instructions.  A directory may hold the root of a repository, and a file  *)
(* of each of the configured names: which real file that is, or none (or one *)
(* that can't be read).  Chain: the workspace, its parent, and so on.        *)

NoneThere == 0
Empty == 1 \* a file with nothing in it
Files == {Empty, 2, 3}
Ancestor == [git : BOOLEAN, files : [1 .. 1 -> Files \cup {NoneThere}]]
TwoNamed == [git : BOOLEAN, files : [1 .. 2 -> Files \cup {NoneThere}]]

DirectoryChains == (BoundedSeq(Ancestor, MaxChain) \cup {<<d>> : d \in TwoNamed}) \ {<<>>}

Instructions(chain, global) == LooksAt([what |-> "instructions", chain |-> chain, global |-> global])

(* searchDirs: from the root of the repository down to the workspace.        *)
SearchDirs(chain) ==
    LET n == IF Len(chain) < MaxAncestors THEN Len(chain) ELSE MaxAncestors
        roots == {i \in 1 .. n : chain[i].git}
        root == IF roots = {} THEN 1 ELSE CHOOSE i \in roots : \A j \in roots : i <= j
    IN Reverse([i \in 1 .. root |-> i])

(* add: a real file once, by the first path to it, and not if it is empty.   *)
AddsAgain(docs, doc) == IF doc.file \in {NoneThere, Empty} THEN docs ELSE Append(docs, doc)
AddDoc(docs, doc) ==
    IF doc.file \in {NoneThere, Empty} \/ \E i \in DOMAIN docs : docs[i].file = doc.file THEN docs
    ELSE Append(docs, doc)

(* Load: the user's own file first.                                          *)
LoadDocs(chain, global) ==
    LET InDir(i) == [n \in DOMAIN chain[i].files |-> [dir |-> i, name |-> n, file |-> chain[i].files[n]]]
        dirs == SearchDirs(chain)
    IN FoldLeft(AddDoc, <<>>, <<[dir |-> 0, name |-> 1, file |-> global]>>
                                \o FlattenSeq([i \in DOMAIN dirs |-> InDir(dirs[i])]))

-------------------------------------------------------------------------------
(* MCP servers. *)

Primary == "primary"
Second == "second"

(* How a server is reached: "unwrapped" is a command that can't be started   *)
(* in the sandbox; agents: who is offered its tools, by name.                *)
Reach == {"command", "unwrapped", "url", "both", "neither"}
ServerConfigs == [name : {"", "server1", "server2"}, reach : Reach, agents : {{}, {Second}, {"*"}}]

Configured(servers) == LooksAt([what |-> "servers", servers |-> servers])

(* NewMCPManager: the first that is wrong is the error.                      *)
WrongServer(servers, i) ==
    LET c == servers[i]
    IN \/ c.name = ""
       \/ \E j \in 1 .. i - 1 : servers[j].name = c.name
       \/ c.reach \in {"both", "neither", "unwrapped"}

ConfigAccepted(servers) == \A i \in DOMAIN servers : ~WrongServer(servers, i)

(* ToolsetsFor: without a list, the primary agent's only.                    *)
OfferedTo(c, agent) == IF c.agents = {} THEN agent = Primary ELSE c.agents \cap {"*", agent} # {}

ToolsetsFor(servers, agent) == SelectSeq(servers, LAMBDA c : OfferedTo(c, agent))

DiscoveryNext ==
    /\ looked = NotLooked
    /\ \/ \E paths \in BoundedSeq(SearchPaths, 2), trusted \in BOOLEAN : ScansFor(paths, trusted)
       \/ \E files \in Bundles : Bundle(files)
       \/ \E lines \in BoundedSeq(LineKinds, MaxDefinition) : Definition(lines)
       \/ \E roots \in BoundedSeq(Roots, 2) : WorkersIn(roots)
       \/ \E e \in Defined(Definitions) : WorkersIn(<<[there |-> "yes", entries |-> <<e>>]>>)
       \/ \E chain \in DirectoryChains, global \in Files \cup {NoneThere} : Instructions(chain, global)
       \/ \E servers \in BoundedSeq(ServerConfigs, 2) : Configured(servers)

DiscoverySpec == DiscoveryInit /\ [][DiscoveryNext]_discoveryVars

-------------------------------------------------------------------------------
DiscoveryTypeOK ==
    looked.what \in {"nothing", "paths", "bundle", "definition", "workers", "instructions", "servers"}

(* A name is what is built in, or else the last file that defines it; every  *)
(* other file that can't be used is reported, and none keeps the rest from   *)
(* being found (manager.go:66-70, provider.go:65-67).                        *)
FoundInOrder ==
    Looked("paths") => \A skills \in BOOLEAN :
        LET files == FilesOf(looked)
            found == Discovered(looked, skills)
            Defines(i, n) == files[i].holds = n
            Unused == {Malformed} \cup BuiltIn \cup (IF skills THEN {} ELSE {Unreadable})
        IN /\ \A n \in Names :
                 LET where == {i \in DOMAIN files : Defines(i, n)}
                 IN IF n \in BuiltIn THEN found.known[n] = "built in"
                    ELSE IF where = {} THEN found.known[n] = "none"
                    ELSE \E i \in where : found.known[n] = files[i].at /\ \A j \in where : j <= i
           /\ found.reported = {files[i].at : i \in {i \in DOMAIN files : files[i].holds \in Unused}}

(* Skills or workers with other files, or other contents, hash other bytes:  *)
(* "it identifies exactly what was reviewed" (skill.go:112-117).             *)
HashTells ==
    Looked("bundle") => \A other \in Bundles : Hashed(other) = Hashed(looked.files) => other = looked.files

(* A definition's frontmatter and prompt are read as they were written, also *)
(* when the prompt has lines of "---" of its own (worker.go:168-187).        *)
PromptWhole ==
    Looked("definition") =>
        LET s == looked.lines
            First(b, e) == /\ \A i \in 1 .. b : s[i] = "blank"
                           /\ s[b + 1] \in Fences /\ s[e] \in Fences
                           /\ \A i \in b + 2 .. e - 1 : s[i] \notin Fences
            all == {be \in (0 .. Len(s) - 1) \X (2 .. Len(s)) : be[1] + 1 < be[2] /\ First(be[1], be[2])}
        IN IF all = {} THEN Split(s) = NoSplit
           ELSE \A be \in all : Split(s) = [ok |-> TRUE, frontmatter |-> SubSeq(s, be[1] + 2, be[2] - 1),
                                           body |-> SubSeq(s, be[2] + 1, Len(s))]

(* What fits each field: a worker with anything else isn't run.              *)
Fit == [Fields EXCEPT !.directory = {"named"}, !.name = @ \ {"other"}, !.body = {"text"}, !.schedule = {"parses"},
                    !.timeout = {"", "20m"}, !.turns = {"0", "5"}, !.cost = {"0", "5"}, !.overlap = @ \ {"queue"},
                    !.catchUp = @ \ {"twice"}, !.files = {"hashed"}, !.permissions = BoundedSeq({"good"}, 2)]

(* Every WORKER.md is listed, in order, or counted among the errors, however *)
(* many of the others can't be read, and the ones listed without anything    *)
(* wrong are those whose every field can be used (worker.go:243-273).        *)
WorkersFound ==
    Looked("workers") =>
        LET found == Discover(looked.roots)
            entries == FlattenSeq([r \in DOMAIN looked.roots |-> looked.roots[r].entries])
            defined == SelectSeq(entries, LAMBDA e : e.is = "defined")
            Failed(e) == e.is \in {Unreadable, Malformed}
        IN /\ Len(found.workers) = Len(defined)
           /\ \A i \in DOMAIN defined :
                 LET d == defined[i].def
                 IN found.workers[i].wrong = {} <=> \A f \in DOMAIN d : d[f] \in Fit[f]
           /\ found.errors = Cardinality({i \in DOMAIN entries : Failed(entries[i])})
                               + Cardinality({r \in DOMAIN looked.roots : looked.roots[r].there = Unreadable})

(* Instructions go from the most general to the most specific, each file     *)
(* once; all of the repository's down to the workspace are among them, and   *)
(* none from above it, or from above a workspace that isn't in one           *)
(* (memory.go:24-26).                                                        *)
InstructionsOrdered ==
    Looked("instructions") =>
        LET chain == looked.chain
            docs == LoadDocs(chain, looked.global)
            InRepository(i) == \E r \in i .. Len(chain) :
                                  r <= MaxAncestors /\ chain[r].git /\ \A j \in 1 .. r - 1 : ~chain[j].git
            Counts(i) == i = 1 \/ InRepository(i)
            real == {looked.global} \cup UNION {ToSet(chain[i].files) : i \in {i \in DOMAIN chain : Counts(i)}}
        IN /\ {docs[i].file : i \in DOMAIN docs} = real \ {NoneThere, Empty}
           /\ \A i, j \in DOMAIN docs : i < j =>
                 /\ docs[i].file # docs[j].file
                 /\ \/ docs[i].dir = 0
                    \/ docs[j].dir # 0 /\ docs[j].dir < docs[i].dir
                    \/ docs[j].dir = docs[i].dir /\ docs[i].name < docs[j].name
           /\ \A i \in DOMAIN docs : docs[i].dir > 0 => Counts(docs[i].dir)

(* The servers of a configuration that is accepted have names of their own   *)
(* and one way to be reached; who has a list of agents is not offered to     *)
(* others, the primary agent included.                                       *)
ServersOffered ==
    Looked("servers") /\ ConfigAccepted(looked.servers) =>
        LET servers == looked.servers
        IN /\ \A i, j \in DOMAIN servers : servers[i].name = servers[j].name => i = j
           /\ \A i \in DOMAIN servers : servers[i].name # "" /\ servers[i].reach \in {"command", "url"}
           /\ \A agent \in {Primary, Second} :
                 ToSet(ToolsetsFor(servers, agent)) =
                     {servers[i] : i \in {i \in DOMAIN servers :
                         agent \in (CASE "*" \in servers[i].agents -> {Primary, Second}
                                      [] servers[i].agents = {} -> {Primary}
                                      [] OTHER -> servers[i].agents)}}

FoundTruly == FoundInOrder /\ HashTells /\ PromptWhole /\ WorkersFound /\ InstructionsOrdered /\ ServersOffered
===============================================================================
