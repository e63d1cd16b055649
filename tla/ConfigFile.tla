------------------------------- MODULE ConfigFile -------------------------------
(***************************************************************************)
(* How Blitz changes the user's configuration file, .env.toml              *)
(* (internal/config/locale.go, agentmodels.go, modelsettings.go): only the *)
(* lines of the setting that changes are edited, as text; what comes out   *)
(* is read as TOML and refused unless it says what was meant, and replaces *)
(* the file in one step.                                                   *)
(***************************************************************************)
EXTENDS Integers, Sequences, SequencesExt, FiniteSets, FiniteSetsExt, Functions

CONSTANTS MaxDoc,     \* bound: lines of the file the user wrote
          MaxSaves,   \* bound: settings changed
          MaxTouched  \* bound: changes others make to the file meanwhile

ASSUME ConfigAssumption == MaxDoc \in Nat /\ MaxSaves \in Nat /\ MaxTouched \in Nat

VARIABLES
  configFile,  \* the file: its lines, or none, and whether others may read it
  edit,    \* the change under way: what is to change, what was read, its text
  temps,   \* temporary files left behind
  lastEdit    \* for the properties: the last change, before and after

configVars == <<configFile, edit, temps, lastEdit>>

-------------------------------------------------------------------------------
(* Lines, as the editing code tells them apart.                             *)

Tables == {"ui", "agent_models"}
KeyOf == [ui |-> "locale", agent_models |-> "agent"]

(* A table's header may be spelled so that the code doesn't know it; a key may *)
(* be followed by a comment; """ begins or ends a text of several lines.       *)
DocLines ==
    [kind : {"table"}, name : Tables, plain : BOOLEAN] \cup
    [kind : {"key"}, name : {"locale"}, value : {"old"}, note : {TRUE}] \cup
    [kind : {"key"}, name : {"agent"}, value : {"old"}, note : {FALSE}] \cup
    [kind : {"comment", "blank", "quote"}]

BlankLine == [kind |-> "blank"]
HeaderLine(table) == [kind |-> "table", name |-> table, plain |-> TRUE]
KeyLine(key, value) == [kind |-> "key", name |-> key, value |-> value, note |-> FALSE]

IsHeader(line) == line.kind = "table"
IsTable(line, table) == line.kind = "table" /\ line.plain /\ line.name = table
IsKey(line, key) == line.kind = "key" /\ line.name = key
IsFiller(line) == line.kind \in {"blank", "comment"}

-------------------------------------------------------------------------------
(* What the file says, as a TOML reader has it.                             *)

Quotes(doc, i) == Cardinality({j \in 1..i : doc[j].kind = "quote"})
InText(doc, i) == doc[i].kind # "quote" /\ Quotes(doc, i) % 2 = 1
HeadersBefore(doc, i) == {j \in 1..i : IsHeader(doc[j]) /\ ~InText(doc, j)}
TableAt(doc, i) ==
    IF HeadersBefore(doc, i) = {} THEN "root" ELSE doc[Max(HeadersBefore(doc, i))].name

(* Every assignment with its place; a text of several lines is one of them.  *)
Assigned(doc) ==
    {i \in 1..Len(doc) :
        \/ doc[i].kind = "key" /\ ~InText(doc, i)
        \/ doc[i].kind = "quote" /\ Quotes(doc, i) % 2 = 1}
NameAt(doc, i) == IF doc[i].kind = "quote" THEN "text" ELSE doc[i].name
TextAt(doc, i) == SubSeq(doc, i + 1, Min({j \in i+1..Len(doc) : doc[j].kind = "quote"}) - 1)
Setting(doc, i) == [table |-> TableAt(doc, i), key |-> NameAt(doc, i),
                    value |-> IF doc[i].kind = "quote" THEN TextAt(doc, i)
                             ELSE <<KeyLine(doc[i].name, doc[i].value)>>]
Settings(doc) == {Setting(doc, i) : i \in Assigned(doc)}

(* No key and no table is there twice, and every text ends. *)
ValidToml(doc) ==
    /\ Quotes(doc, Len(doc)) % 2 = 0
    /\ \A i, j \in Assigned(doc) :
          i # j => TableAt(doc, i) # TableAt(doc, j) \/ NameAt(doc, i) # NameAt(doc, j)
    /\ \A i, j \in HeadersBefore(doc, Len(doc)) : i # j => doc[i].name # doc[j].name

-------------------------------------------------------------------------------
(* setTOMLKey, removeTOMLKey and removeEmptyTable look at the text.          *)

Starts(doc, table) == {i \in 1..Len(doc) : IsTable(doc[i], table)}
Section(doc, table) ==
    LET start == Min(Starts(doc, table))
        next == {i \in start+1..Len(doc) : IsHeader(doc[i])}
    IN  [start |-> start, end |-> IF next = {} THEN Len(doc) + 1 ELSE Min(next)]

(* The last line of a section that isn't blank. *)
LastFilled(doc, s) == Max({i \in s.start..s.end - 1 : i = s.start \/ doc[i] # BlankLine})

TrimBlanks(doc) == SubSeq(doc, 1, Max({0} \cup {i \in 1..Len(doc) : doc[i] # BlankLine}))

AppendTable(doc, table, line) ==
    LET kept == TrimBlanks(doc)
    IN  kept \o (IF kept = <<>> THEN <<>> ELSE <<BlankLine>>) \o <<HeaderLine(table), line>>

(* A comment behind the value stays behind it. *)
SetKey(doc, table, key, value) ==
    IF Starts(doc, table) = {} THEN AppendTable(doc, table, KeyLine(key, value))
    ELSE LET s == Section(doc, table)
             at == {i \in s.start+1..s.end - 1 : IsKey(doc[i], key)}
         IN  IF at # {} THEN [doc EXCEPT ![Min(at)].value = value]
             ELSE InsertAt(doc, LastFilled(doc, s) + 1, KeyLine(key, value))

RemoveKey(doc, table, key) ==
    LET header(i) == {j \in 1..i : IsHeader(doc[j])}
        at == {i \in 1..Len(doc) : /\ IsKey(doc[i], key)
                                   /\ header(i) # {} /\ IsTable(doc[Max(header(i))], table)}
    IN  IF at = {} THEN doc ELSE RemoveAt(doc, Min(at))

RemoveEmptyTable(doc, table) ==
    IF Starts(doc, table) = {} THEN doc
    ELSE LET s == Section(doc, table)
             cut == RemoveAt(doc, s.start)
             double == s.start \in 2..Len(cut) /\ cut[s.start - 1] = BlankLine /\ cut[s.start] = BlankLine
         IN  IF \E i \in s.start+1..s.end - 1 : ~IsFiller(doc[i]) THEN doc
             ELSE IF double THEN RemoveAt(cut, s.start) ELSE cut

(* A change sets a key or takes it away: the language is always set, a pin   *)
(* may be, and a model's settings go with their table when the last does.    *)
Changes == [table : Tables, value : {"new", "unset"}, drop : BOOLEAN]
MayChange(change) == change.table = "ui" => change.value = "new" /\ ~change.drop

Edited(doc, change) ==
    LET key == KeyOf[change.table]
        new == IF change.value = "unset" THEN RemoveKey(doc, change.table, key)
               ELSE SetKey(doc, change.table, key, change.value)
    IN  IF change.drop THEN RemoveEmptyTable(new, change.table) ELSE new

(* What the file says of the key, read as TOML. *)
SaysOf(doc, change) ==
    {s.value : s \in {t \in Settings(doc) : t.table = change.table /\ t.key = KeyOf[change.table]}}
WantsOf(change) == IF change.value = "unset" THEN {} ELSE {<<KeyLine(KeyOf[change.table], change.value)>>}
Verified(doc, change) == ValidToml(doc) /\ SaysOf(doc, change) = WantsOf(change)

-------------------------------------------------------------------------------
(* editConfigFile, and what else happens to the file.                        *)

NoConfig == [there |-> FALSE, doc |-> <<>>, private |-> TRUE]
NoEdit == [at |-> "idle", change |-> CHOOSE c \in Changes : TRUE, read |-> NoConfig, text |-> <<>>]
NotSaved == [times |-> 0, touched |-> 0, refused |-> FALSE, old |-> <<>>, new |-> <<>>,
             change |-> CHOOSE c \in Changes : TRUE]

ConfigInit ==
    /\ configFile = NoConfig /\ edit = NoEdit /\ temps = 0 /\ lastEdit = NotSaved

(* The user writes the file by hand, or changes it while Blitz runs. *)
WriteByHand ==
    /\ edit.at = "idle" /\ lastEdit.times = 0 /\ ~configFile.there
    /\ \E doc \in BoundedSeq(DocLines, MaxDoc) : ValidToml(doc) /\ configFile' = [there |-> TRUE, doc |-> doc, private |-> FALSE]
    /\ UNCHANGED <<edit, temps, lastEdit>>

TouchByHand ==
    /\ edit.at # "idle" /\ lastEdit.touched < MaxTouched /\ configFile.there
    /\ configFile' = [configFile EXCEPT !.doc = <<[kind |-> "comment"]>> \o @]
    /\ lastEdit' = [lastEdit EXCEPT !.touched = @ + 1]
    /\ UNCHANGED <<edit, temps>>

(* The text is edited and checked before anything is written. *)
StartEdit ==
    /\ edit.at = "idle" /\ lastEdit.times < MaxSaves
    /\ \E change \in Changes :
         /\ MayChange(change)
         /\ LET text == Edited(configFile.doc, change)
                good == Verified(text, change)
            IN  /\ edit' = IF good THEN [at |-> "write", change |-> change, read |-> configFile, text |-> text]
                           ELSE NoEdit
                /\ lastEdit' = IF good THEN [lastEdit EXCEPT !.refused = FALSE]
                            ELSE [lastEdit EXCEPT !.times = @ + 1, !.refused = TRUE, !.change = change,
                                               !.old = configFile.doc, !.new = configFile.doc]
    /\ UNCHANGED <<configFile, temps>>

(* Into a file beside it, with the permissions of the one it replaces. *)
WriteTemp ==
    /\ edit.at = "write"
    /\ edit' = [edit EXCEPT !.at = "rename"]
    /\ temps' = temps + 1
    /\ UNCHANGED <<configFile, lastEdit>>

RenameTemp ==
    /\ edit.at = "rename"
    /\ configFile' = [there |-> TRUE, doc |-> edit.text, private |-> edit.read.private]
    /\ temps' = temps - 1
    /\ lastEdit' = [lastEdit EXCEPT !.times = @ + 1, !.change = edit.change, !.old = edit.read.doc, !.new = edit.text]
    /\ edit' = NoEdit

(* A disk that fails: the file beside it is removed. *)
EditFails ==
    /\ edit.at \in {"write", "rename"}
    /\ temps' = IF edit.at = "rename" THEN temps - 1 ELSE temps
    /\ edit' = NoEdit
    /\ lastEdit' = [lastEdit EXCEPT !.times = @ + 1, !.old = <<>>, !.new = <<>>]
    /\ UNCHANGED configFile

(* Blitz is killed: the file beside it may stay. *)
EditKilled ==
    /\ edit.at \in {"write", "rename"}
    /\ edit' = NoEdit
    /\ lastEdit' = [lastEdit EXCEPT !.times = @ + 1, !.old = <<>>, !.new = <<>>]
    /\ UNCHANGED <<configFile, temps>>

ConfigNext ==
    \/ WriteByHand \/ TouchByHand
    \/ StartEdit \/ WriteTemp \/ RenameTemp \/ EditFails \/ EditKilled

ConfigSpec == ConfigInit /\ [][ConfigNext]_configVars

ConfigTypeOK ==
    /\ configFile.there \in BOOLEAN /\ configFile.private \in BOOLEAN
    /\ \A i \in 1..Len(configFile.doc) : configFile.doc[i].kind \in {"table", "key", "comment", "blank", "quote"}
    /\ edit.at \in {"idle", "write", "rename"} /\ edit.change \in Changes
    /\ temps \in 0..MaxSaves

-------------------------------------------------------------------------------
(* A text of several lines with one in it that looks like a header or the key. *)
Misleading(doc, table) ==
    \E i \in 1..Len(doc) : InText(doc, i) /\ (IsHeader(doc[i]) \/ IsKey(doc[i], KeyOf[table]))
SpelledOtherwise(doc, table) ==
    \E i \in HeadersBefore(doc, Len(doc)) : doc[i].name = table /\ ~doc[i].plain

OtherSettings(doc, change) ==
    {s \in Settings(doc) : s.table # change.table \/ s.key # KeyOf[change.table]}
Comments(doc) == Cardinality({i \in 1..Len(doc) : doc[i].kind = "comment"})
NotesOf(doc) == {NameAt(doc, i) : i \in {j \in Assigned(doc) : doc[j].kind = "key" /\ doc[j].note}}

(* "Only that line changes; comments and other settings are kept"            *)
(* (agentmodels.go): every other setting of the file that was read is in the *)
(* one that replaces it, with the comments; a change is refused only where    *)
(* the table is there under another spelling.  Texts of several lines that    *)
(* look like it are the exception.                                             *)
OnlyThatSetting ==
    lastEdit.times > 0 /\ ~Misleading(lastEdit.old, lastEdit.change.table) =>
        /\ OtherSettings(lastEdit.new, lastEdit.change) = OtherSettings(lastEdit.old, lastEdit.change)
        /\ Comments(lastEdit.new) = Comments(lastEdit.old)
        /\ lastEdit.change.value # "unset" => NotesOf(lastEdit.old) \subseteq NotesOf(lastEdit.new)
        /\ lastEdit.refused => SpelledOtherwise(lastEdit.old, lastEdit.change.table)

(* The file can be read at any moment, and by nobody who couldn't before.    *)
NeverTorn == ValidToml(configFile.doc) /\ (edit.at # "idle" => edit.read.private = configFile.private)

ConfigEdited == OnlyThatSetting /\ NeverTorn
===============================================================================
