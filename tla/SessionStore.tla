----------------------------- MODULE SessionStore -----------------------------
(***************************************************************************)
(* Saved sessions (internal/session): a session is a metadata file that is *)
(* replaced atomically and two files of lines, the transcript and the      *)
(* model's events, that are appended to.  Every workspace and every worker *)
(* run has a Storage of its own over the one directory, with its own lock: *)
(* a step here is one file operation, so that those of two Storages and a  *)
(* crash of the process come in any order.                                 *)
(*                                                                         *)
(* Of the metadata only the snapshot name is kept, and there is one name.  *)
(***************************************************************************)
EXTENDS Naturals, FiniteSets, Sequences, SequencesExt

CONSTANTS Storages,    \* Storage objects
          MaxSessions, \* bound: identifiers made
          MaxCreated,  \* bound: those of them for sessions that start empty
          MaxEntries,  \* bound: messages and events written
          MaxFaults,   \* bound: appends cut short and crashes of the process
          MaxKept,     \* bound: sessions of a directory that is listed
          MaxStamps,   \* bound: sessions made and messages added, each at a time of its own
          NoHome       \* the workspace of a session from before sessions had one

VARIABLES meta,    \* each session's metadata file
          file,    \* each session's files of lines
          made,    \* identifiers made so far
          written, \* messages and events written so far
          faults,  \* appends cut short and crashes so far
          active,  \* each Storage's active session, 0 for none
          op       \* what each Storage is in the middle of

sessionVars == <<meta, file, made, written, faults, active, op>>

Sessions == 1 .. MaxSessions
Entries == 1 .. MaxEntries
Logs == {"messages", "events"}

(* A file is a sequence of entries, pieces of an entry and newlines. *)
Newline == 0
Piece == MaxEntries + 1

(* "looking": between the search for the name and the lock. *)
Locked == {"reading", "events", "listing", "removing"}
Idle == [pc |-> "idle", name |-> FALSE, old |-> 0, src |-> 0, new |-> 0]

SessionInit ==
    /\ meta = [s \in Sessions |-> "none"]
    /\ file = [s \in Sessions |-> [k \in Logs |-> <<>>]]
    /\ made = 0 /\ written = 0 /\ faults = 0
    /\ active = [st \in Storages |-> 0]
    /\ op = [st \in Storages |-> Idle]

-------------------------------------------------------------------------------
(* Reading and writing lines. *)

(* The lines that hold one entry and nothing else; the last one needs no     *)
(* newline.  Every other line fails to parse and is skipped.                 *)
IsWhole(f, i) == /\ f[i] \in Entries
                 /\ i = 1 \/ f[i - 1] = Newline
                 /\ i = Len(f) \/ f[i + 1] = Newline

Parsed(f) == IF f = <<>> THEN <<>>
             ELSE SelectSeq([i \in DOMAIN f |-> IF IsWhole(f, i) THEN f[i] ELSE Newline],
                            LAMBDA x : x # Newline)

Rendered(msgs) == [i \in 1 .. 2 * Len(msgs) |-> IF i % 2 = 1 THEN msgs[(i + 1) \div 2] ELSE Newline]

(* The newest snapshot, 0 for none: List sorts by time. *)
FindName == LET snaps == {s \in Sessions : meta[s] = "snapshot"}
            IN IF snaps = {} THEN 0 ELSE CHOOSE s \in snaps : \A t \in snaps : t <= s

NewSessionID == made + 1

Free(st) == op[st].pc \notin Locked

-------------------------------------------------------------------------------
(* Operations of one step. *)

CreateSession(st) ==
    /\ Free(st) /\ made < MaxCreated
    /\ meta' = [meta EXCEPT ![NewSessionID] = "live"]
    /\ made' = NewSessionID
    /\ active' = [active EXCEPT ![st] = NewSessionID]
    /\ UNCHANGED <<file, written, faults, op>>

(* Open with the ID of a session that isn't a snapshot. *)
Load(st, s) ==
    /\ Free(st) /\ meta[s] = "live"
    /\ active' = [active EXCEPT ![st] = s]
    /\ UNCHANGED <<meta, file, made, written, faults, op>>

(* The line is appended with one write, which may fall short: the disk is    *)
(* full, or the process dies.                                                *)
AppendLine(s, k) ==
    /\ written < MaxEntries
    /\ written' = written + 1
    /\ \/ /\ file' = [file EXCEPT ![s][k] = @ \o <<written + 1, Newline>>]
          /\ UNCHANGED faults
       \/ /\ faults < MaxFaults
          /\ faults' = faults + 1
          /\ \E part \in {Piece, written + 1} : file' = [file EXCEPT ![s][k] = Append(@, part)]
    /\ UNCHANGED <<meta, made, active, op>>

AddMessage(st) == Free(st) /\ active[st] # 0 /\ AppendLine(active[st], "messages")

(* The engine appends under the lock of its own event store. *)
AppendEvent(s) == (\E st \in Storages : active[st] = s) /\ AppendLine(s, "events")

-------------------------------------------------------------------------------
(* Copies: a snapshot of the active session, or a session opened from one.   *)
(* The name is looked up before the lock is taken.                           *)

SnapshotLooksUp(st, replace) ==
    /\ op[st].pc = "idle" /\ active[st] # 0
    /\ FindName = 0 \/ replace
    /\ op' = [op EXCEPT ![st] = [Idle EXCEPT !.pc = "looking", !.name = TRUE,
                                             !.old = FindName, !.src = active[st]]]
    /\ UNCHANGED <<meta, file, made, written, faults, active>>

OpenLooksUp(st, s) ==
    /\ op[st].pc = "idle" /\ meta[s] = "snapshot"
    /\ op' = [op EXCEPT ![st] = [Idle EXCEPT !.pc = "looking", !.src = s]]
    /\ UNCHANGED <<meta, file, made, written, faults, active>>

ReadMeta(st) ==
    /\ op[st].pc = "looking"
    /\ op' = [op EXCEPT ![st] = IF meta[@.src] = "none" THEN Idle ELSE [@ EXCEPT !.pc = "reading"]]
    /\ UNCHANGED <<meta, file, made, written, faults, active>>

NothingToSave(st) == LET f == file[op[st].src] IN Parsed(f["messages"]) = <<>> /\ f["events"] = <<>>

SaveNothing(st) ==
    /\ op[st].pc = "reading" /\ op[st].name /\ NothingToSave(st)
    /\ op' = [op EXCEPT ![st] = Idle]
    /\ UNCHANGED <<meta, file, made, written, faults, active>>

(* The messages that parse are written anew, under a new ID. *)
CopyMessages(st) ==
    /\ op[st].pc = "reading" /\ ~(op[st].name /\ NothingToSave(st)) /\ made < MaxSessions
    /\ file' = [file EXCEPT ![NewSessionID]["messages"] = Rendered(Parsed(file[op[st].src]["messages"]))]
    /\ made' = NewSessionID
    /\ op' = [op EXCEPT ![st].pc = "events", ![st].new = NewSessionID]
    /\ UNCHANGED <<meta, written, faults, active>>

(* The events are copied as they are; no event log is no error. *)
CopyEvents(st) ==
    /\ op[st].pc = "events"
    /\ file' = [file EXCEPT ![op[st].new]["events"] = file[op[st].src]["events"]]
    /\ op' = [op EXCEPT ![st].pc = "listing"]
    /\ UNCHANGED <<meta, made, written, faults, active>>

(* A snapshot that replaces another one still has that to remove.  Listing   *)
(* it before its events are there is what the order of the writes prevents.  *)
Lists(st) ==
    /\ meta' = [meta EXCEPT ![op[st].new] = IF op[st].name THEN "snapshot" ELSE "live"]
    /\ active' = IF op[st].name THEN active ELSE [active EXCEPT ![st] = op[st].new]
    /\ op' = [op EXCEPT ![st] = IF @.old = 0 THEN Idle ELSE [@ EXCEPT !.pc = "removing"]]
    /\ UNCHANGED <<file, made, written, faults>>

ListCopyEarly(st) == op[st].pc \in {"events", "listing"} /\ Lists(st)
ListCopy(st) == op[st].pc = "listing" /\ Lists(st)

(* removeLocked, its failures ignored: the metadata first. *)
RemoveOld(st) ==
    LET old == op[st].old
        left == {k \in Logs : file[old][k] # <<>>}
        next == IF "messages" \in left THEN "messages" ELSE "events"
    IN /\ op[st].pc = "removing"
       /\ IF meta[old] # "none"
          THEN meta' = [meta EXCEPT ![old] = "none"] /\ UNCHANGED <<file, op>>
          ELSE /\ file' = [file EXCEPT ![old][next] = <<>>]
               /\ op' = IF left \ {next} = {} THEN [op EXCEPT ![st] = Idle] ELSE op
               /\ UNCHANGED meta
       /\ UNCHANGED <<made, written, faults, active>>

(* A write of the copy fails: its files are removed. *)
CopyFails(st) ==
    /\ op[st].pc \in {"events", "listing"}
    /\ file' = [file EXCEPT ![op[st].new] = [k \in Logs |-> <<>>]]
    /\ op' = [op EXCEPT ![st] = Idle]
    /\ UNCHANGED <<meta, made, written, faults, active>>

(* The process dies and the Storages of the next one find what it left,      *)
(* perhaps the start of a file it was writing.                               *)
Crash ==
    /\ faults < MaxFaults
    /\ faults' = faults + 1
    /\ active' = [st \in Storages |-> 0]
    /\ op' = [st \in Storages |-> Idle]
    /\ UNCHANGED <<meta, file, made, written>>

SessionNext ==
    \/ Crash
    \/ \E s \in Sessions : AppendEvent(s)
    \/ \E st \in Storages :
        \/ CreateSession(st) \/ AddMessage(st)
        \/ ReadMeta(st) \/ SaveNothing(st) \/ CopyMessages(st) \/ CopyEvents(st)
        \/ ListCopy(st) \/ RemoveOld(st) \/ CopyFails(st)
        \/ \E s \in Sessions : Load(st, s) \/ OpenLooksUp(st, s)
        \/ \E replace \in BOOLEAN : SnapshotLooksUp(st, replace)

SessionSpec == SessionInit /\ [][SessionNext]_sessionVars

-------------------------------------------------------------------------------
(* What a reader of the directory finds. *)

(* The Storage that is making s as a copy. *)
Making(s) == {st \in Storages : op[st].new = s /\ meta[s] = "none"}

TailOf(s, k) ==
    LET f == file[s][k]
    IN IF f = <<>> \/ Last(f) = Newline THEN "whole"
       ELSE IF IsWhole(f, Len(f)) THEN "loose" ELSE "half"

CopiedOf(s) == {k \in Logs : \E st \in Making(s) :
                    op[st].pc \in (IF k = "events" THEN {"listing"} ELSE {"events", "listing"})}

Log == INSTANCE SessionLog WITH shown <- meta,
                                log <- [s \in Sessions |-> [k \in Logs |-> Parsed(file[s][k])]],
                                tail <- [s \in Sessions |-> [k \in Logs |-> TailOf(s, k)]],
                                copied <- [s \in Sessions |-> CopiedOf(s)]

(* The directory keeps the promise of SessionLog through overlapping          *)
(* Storages, cut appends, failed copies and crashes: nothing is listed half   *)
(* copied, a snapshot never changes, and a cut append costs the entry that    *)
(* follows it and no other (snapshot.go:160-194, session.go:192-205 and       *)
(* 411-435, adkstore.go:108-132).                                             *)
SessionsAsPromised == Log!Promise

SessionTypeOK ==
    /\ meta \in [Sessions -> {"none", "live", "snapshot"}]
    /\ made \in 0 .. MaxSessions
    /\ active \in [Storages -> 0 .. made]
    /\ \A st \in Storages : /\ op[st].pc \in Locked \cup {"idle", "looking"}
                            /\ op[st].new <= made
    /\ \A s \in Sessions, k \in Logs :
           \A i \in DOMAIN file[s][k] : file[s][k][i] \in Newline .. Piece

(* "Names are unique across workspaces, like IDs" (snapshot.go:31-32).        *)
NamesUnique == Cardinality({s \in Sessions : meta[s] = "snapshot"}) <= 1
-------------------------------------------------------------------------------
(***************************************************************************)
(* The list of sessions, their metadata, and sessions in the single file   *)
(* of earlier versions.  Each Storage is a workspace's, with a copy of its *)
(* active session's metadata that it writes whole.  What the part above    *)
(* shows of crashes and appends is left out.                               *)
(***************************************************************************)

VARIABLES kept,   \* each session's files
          using,  \* each Storage's active session, as it has it in memory
          stamp,  \* the time
          set     \* for the properties: the title and turn each session was last given

listVars == <<kept, using, stamp, set>>

KeptIds == 1 .. MaxKept
NoRecord == [id |-> 0, home |-> NoHome, title |-> "", turn |-> 0, updated |-> 0, said |-> 0]

(* meta.id is 0 when there is no such file; so is legacy.id.                 *)
ListInit ==
    /\ kept = [i \in KeptIds |-> [meta |-> NoRecord, legacy |-> NoRecord, lines |-> 0]]
    /\ using = [st \in Storages |-> NoRecord]
    /\ stamp = 0
    /\ set = [i \in KeptIds |-> [title |-> "", turn |-> 0]]

HasFile(i) == kept[i].meta.id # 0 \/ kept[i].legacy.id # 0

(* An earlier version left a session, which may have had a workspace.        *)
LeftByEarlier(i, home) ==
    /\ \A st \in Storages : using[st].id = 0
    /\ ~HasFile(i) /\ stamp < MaxStamps
    /\ stamp' = stamp + 1
    /\ kept' = [kept EXCEPT ![i].legacy = [NoRecord EXCEPT !.id = i, !.home = home, !.updated = stamp', !.said = 1]]
    /\ UNCHANGED <<using, set>>

(* Two workspaces that have one session active overwrite each other's        *)
(* metadata, and nothing is promised of it: they don't here.                 *)
NotElsewhere(st, i) == \A other \in Storages \ {st} : using[other].id # i

(* writeMeta and the active session.                                         *)
Keeps(st, rec) ==
    /\ kept' = [kept EXCEPT ![rec.id].meta = rec]
    /\ using' = [using EXCEPT ![st] = rec]

KeepsNew(st, i) ==
    /\ ~HasFile(i) /\ stamp < MaxStamps
    /\ stamp' = stamp + 1
    /\ Keeps(st, [NoRecord EXCEPT !.id = i, !.home = st, !.updated = stamp'])
    /\ UNCHANGED set

(* readMeta with the messages, or readLegacy.                                *)
Recorded(i) == IF kept[i].meta.id # 0 THEN [kept[i].meta EXCEPT !.said = kept[i].lines] ELSE kept[i].legacy

(* Load, and the session's adoption by the workspace.                        *)
NotAdopted(st, i) ==
    /\ HasFile(i) /\ NotElsewhere(st, i)
    /\ using' = [using EXCEPT ![st] = Recorded(i)]
    /\ UNCHANGED <<kept, stamp, set>>

LoadKept(st, i) ==
    /\ HasFile(i) /\ NotElsewhere(st, i)
    /\ IF Recorded(i).home = NoHome
       THEN Keeps(st, [Recorded(i) EXCEPT !.home = st])
       ELSE using' = [using EXCEPT ![st] = Recorded(i)] /\ UNCHANGED kept
    /\ UNCHANGED <<stamp, set>>

Titled(rec) == IF rec.title = "" THEN "from a prompt" ELSE rec.title

(* AddMessage, of the user.                                                  *)
KeepsMessage(st) ==
    /\ using[st].id # 0 /\ stamp < MaxStamps
    /\ stamp' = stamp + 1
    /\ LET i == using[st].id
           rec == [using[st] EXCEPT !.said = @ + 1, !.title = Titled(using[st]), !.updated = stamp']
       IN /\ kept' = [kept EXCEPT ![i].lines = @ + 1, ![i].meta = rec]
          /\ using' = [using EXCEPT ![st] = rec]
          /\ set' = [set EXCEPT ![i].title = rec.title]

Rename(st) ==
    /\ using[st].id # 0
    /\ Keeps(st, [using[st] EXCEPT !.title = "given"])
    /\ set' = [set EXCEPT ![using[st].id].title = "given"]
    /\ UNCHANGED stamp

(* SetLastTurn: of the active session, or else in the file.                  *)
LastTurn(st, i) == IF using[st].id = i THEN using[st].turn ELSE kept[i].meta.turn

SetLastTurn(st, i) ==
    /\ LastTurn(st, i) = 0 \* one turn is enough
    /\ NotElsewhere(st, i)
    /\ IF using[st].id = i THEN Keeps(st, [using[st] EXCEPT !.turn = 1])
       ELSE /\ kept[i].meta.id # 0
            /\ kept' = [kept EXCEPT ![i].meta.turn = 1]
            /\ UNCHANGED using
    /\ set' = [set EXCEPT ![i].turn = 1]
    /\ UNCHANGED stamp

(* List: the metadata files, and the single files without one.               *)
ListsTwice ==
    LET metas == SelectSeq([i \in KeptIds |-> kept[i].meta], LAMBDA r : r.id # 0)
        legacies == SelectSeq([i \in KeptIds |-> kept[i].legacy], LAMBDA r : r.id # 0)
    IN SortSeq(metas \o legacies, LAMBDA r, q : r.updated > q.updated)

List ==
    LET metas == SelectSeq([i \in KeptIds |-> kept[i].meta], LAMBDA r : r.id # 0)
        legacies == SelectSeq([i \in KeptIds |-> kept[i].legacy], LAMBDA r : r.id # 0 /\ kept[r.id].meta.id = 0)
    IN SortSeq(metas \o legacies, LAMBDA r, q : r.updated > q.updated)

ListWorkspace(st) == SelectSeq(List, LAMBDA r : r.home = st)

(* selectSession: --continue takes the newest of the workspace.              *)
Continue(st) == ListWorkspace(st) # <<>> /\ LoadKept(st, Head(ListWorkspace(st)).id)

ListNext ==
    \E st \in Storages :
        \/ KeepsMessage(st) \/ Rename(st) \/ Continue(st)
        \/ \E i \in KeptIds :
              \/ \E home \in Storages \cup {NoHome} : LeftByEarlier(i, home)
              \/ KeepsNew(st, i) \/ LoadKept(st, i) \/ SetLastTurn(st, i)

ListSpec == ListInit /\ [][ListNext]_listVars

ListTypeOK == stamp \in 0 .. MaxStamps /\ \A st \in Storages : using[st].id \in 0 .. MaxKept

(* Every session is listed once, newest first, those of earlier versions and *)
(* those adopted from them included (session.go:343-385).                    *)
ListedOnce ==
    LET ids == [n \in DOMAIN List |-> List[n].id]
    IN /\ ToSet(ids) = {i \in KeptIds : HasFile(i)}
       /\ \A m, n \in DOMAIN ids : m < n => ids[m] # ids[n] /\ List[m].updated >= List[n].updated

(* A workspace finds the session it has active, whoever made it, unless it   *)
(* is another workspace's (session.go:279-281).                              *)
FoundAgain ==
    \A st \in Storages :
        LET i == using[st].id
        IN i # 0 => /\ using[st].home # NoHome
                    /\ using[st].home = st => \E n \in DOMAIN ListWorkspace(st) : ListWorkspace(st)[n].id = i

(* A session keeps the title and the turn it was last given and all of its   *)
(* messages, however often it is loaded, and by whichever workspace.         *)
MetadataKept ==
    \A i \in KeptIds :
        /\ kept[i].meta.id # 0 => kept[i].meta.title = set[i].title /\ kept[i].meta.turn = set[i].turn
        /\ kept[i].legacy.id = 0 => Recorded(i).said = kept[i].lines
        /\ \A st \in Storages : using[st].id = i /\ kept[i].meta.id # 0 => using[st].title = kept[i].meta.title

SessionsListed == ListedOnce /\ FoundAgain /\ MetadataKept

(* The messages of a session from an earlier version are still its messages  *)
(* after it was loaded.  This does not hold: the metadata that its adoption, *)
(* or its next message, writes stands for a session whose messages are in    *)
(* another file (session.go:268-287).                                        *)
EarlierMessagesKept == \A i \in KeptIds : Recorded(i).said >= kept[i].legacy.said
===============================================================================
