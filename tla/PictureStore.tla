-------------------------------- MODULE PictureStore --------------------------------
(***************************************************************************)
(* Pictures in a conversation: they are loaded and kept in a store by      *)
(* their hash (internal/images, internal/tools/images.go), the history     *)
(* holds references to them, and a request to a model the pictures         *)
(* themselves (internal/runtime/images.go, openai_images.go).              *)
(*                                                                         *)
(* Several workspaces share the store: their loads overlap, and the        *)
(* opening of one prunes it.  A picture is the bytes it is prepared to, so *)
(* two files that show the same are one picture.  A crash leaves the       *)
(* temporary file of a Put, which nothing takes for a picture.             *)
(***************************************************************************)
EXTENDS Naturals, Sequences, SequencesExt, FiniteSets

CONSTANTS Pics,
          PicLoaders,  \* workspaces that load pictures at a time
          NoPic,
          RetainDays,  \* [images] retain_days
          MaxAge,      \* bound: days a picture ages
          MaxPrompts,  \* bound: contents of the history
          MaxWanted,   \* bound: pictures wanted at a time
          MaxEdge      \* bound: the edges of pictures whose scaling is checked

ASSUME PicAssumption == NoPic \notin Pics /\ RetainDays \in Nat /\ MaxAge \in Nat /\ RetainDays <= MaxAge

VARIABLES filed,  \* days since each picture's file was written or touched; Gone without one
          since,   \* days since it was last put
          loader,  \* each prompt being made ready
          pruner,  \* Prune: its place, the files it listed and the one it found too old
          history, \* the contents of the session
          hasty   \* pictures put while Prune was about to remove them

picVars == <<filed, since, loader, pruner, history, hasty>>

Gone == MaxAge + 1

(* A prompt names pictures by path, or mentions them in its text.            *)
WantedPic == [pic : Pics \cup {NoPic}, mention : BOOLEAN]

(* What a prompt may want: the paths come first, and then what it mentions.  *)
WantedPics == {w \in BoundedSeq(WantedPic, MaxWanted) :
                  w # <<>> /\ \A i, j \in DOMAIN w : i < j /\ w[i].mention => w[j].mention}

Unasked == [pc |-> "idle", wanted |-> <<>>, at |-> 0, out |-> <<>>]

PicInit ==
    /\ filed = [p \in Pics |-> Gone] /\ since = [p \in Pics |-> Gone]
    /\ loader = [l \in PicLoaders |-> Unasked]
    /\ pruner = [pc |-> "idle", list |-> {}, doomed |-> NoPic]
    /\ history = <<>> /\ hasty = {}

-------------------------------------------------------------------------------
(* LoadAttachments: one picture after the other.                             *)

MaxOf(s) == CHOOSE n \in s : \A m \in s : m <= n

Want(l, wanted) ==
    /\ loader[l].pc = "idle" /\ Len(history) < MaxPrompts
    /\ Len(wanted) + MaxOf({Len(loader[k].wanted) : k \in PicLoaders}) <= MaxWanted
    /\ loader' = [loader EXCEPT ![l] = [Unasked EXCEPT !.pc = "loading", !.wanted = wanted, !.at = 1]]
    /\ UNCHANGED <<filed, since, pruner, history, hasty>>

Loading(l) == loader[l].pc = "loading" /\ loader[l].at \in DOMAIN loader[l].wanted

This(l) == loader[l].wanted[loader[l].at]

(* A mention that can't be loaded is left out, a path fails the prompt.      *)
PictureDone(q) == [q EXCEPT !.pc = "loading", !.at = @ + 1]
NotLoaded(q) == IF q.wanted[q.at].mention THEN PictureDone(q) ELSE Unasked

(* Pictures attached once; and attached again for each name they have.       *)
AddedTwice(q, p) == PictureDone([q EXCEPT !.out = Append(@, p)])
Added(q, p) == PictureDone([q EXCEPT !.out = IF p \in ToSet(@) THEN @ ELSE Append(@, p)])

(* Read and Prepare: what isn't a picture, or can't be made small enough.    *)
CannotRead(l) ==
    /\ Loading(l) /\ This(l).pic = NoPic
    /\ loader' = [loader EXCEPT ![l] = NotLoaded(@)]
    /\ UNCHANGED <<filed, since, pruner, history, hasty>>

(* Put: is it there?  Then its age is reset, else it is written and renamed. *)
PutLooks(l) ==
    /\ Loading(l) /\ This(l).pic # NoPic
    /\ loader' = [loader EXCEPT ![l].pc = IF filed[This(l).pic] # Gone THEN "touching" ELSE "writing"]
    /\ UNCHANGED <<filed, since, pruner, history, hasty>>

AgeKept(p) == UNCHANGED filed
AgeReset(p) == filed' = [filed EXCEPT ![p] = 0]

IsPut(l, p) ==
    /\ since' = [since EXCEPT ![p] = 0]
    /\ loader' = [loader EXCEPT ![l] = Added(@, p)]
    /\ hasty' = IF pruner.doomed = p THEN hasty \cup {p} ELSE hasty \ {p}
    /\ UNCHANGED <<pruner, history>>

(* A file that was pruned in between is an error. *)
PutTouches(l) ==
    /\ loader[l].pc = "touching"
    /\ LET p == This(l).pic
       IN IF filed[p] = Gone
          THEN loader' = [loader EXCEPT ![l] = NotLoaded(@)] /\ UNCHANGED <<filed, since, pruner, history, hasty>>
          ELSE AgeReset(p) /\ IsPut(l, p)

PutRenames(l) ==
    /\ loader[l].pc = "writing"
    /\ LET p == This(l).pic IN filed' = [filed EXCEPT ![p] = 0] /\ IsPut(l, p)

PutFails(l) ==
    /\ loader[l].pc = "writing"
    /\ loader' = [loader EXCEPT ![l] = NotLoaded(@)]
    /\ UNCHANGED <<filed, since, pruner, history, hasty>>

Ref(p) == [kind |-> "image", pic |-> p]
PromptText == [kind |-> "text", pic |-> NoPic]
MarkerText == [kind |-> "marker", pic |-> NoPic] \* a text that begins like a marker

(* userContent: the pictures, and then the text.                             *)
Prompted(l, text) ==
    /\ loader[l].pc = "loading" /\ loader[l].at > Len(loader[l].wanted)
    /\ history' = IF Len(history) < MaxPrompts
                  THEN Append(history, [i \in DOMAIN loader[l].out |-> Ref(loader[l].out[i])] \o <<text>>)
                  ELSE history
    /\ loader' = [loader EXCEPT ![l] = Unasked]
    /\ UNCHANGED <<filed, since, pruner, hasty>>

(* view_image loads one picture by its path: the result of a tool has it.    *)
Viewed(l) ==
    /\ loader[l].pc = "loading" /\ loader[l].at > Len(loader[l].wanted)
    /\ Len(loader[l].wanted) = 1 /\ ~loader[l].wanted[1].mention /\ Len(history) < MaxPrompts
    /\ history' = Append(history, <<[kind |-> "result", pic |-> loader[l].wanted[1].pic],
                                   [kind |-> "result", pic |-> NoPic]>>)
    /\ loader' = [loader EXCEPT ![l] = Unasked]
    /\ UNCHANGED <<filed, since, pruner, hasty>>

-------------------------------------------------------------------------------
(* Prune, file by file, and days that pass. *)

PruneLists ==
    /\ pruner.pc = "idle"
    /\ pruner' = [pc |-> "looking", list |-> {p \in Pics : filed[p] # Gone}, doomed |-> NoPic]
    /\ UNCHANGED <<filed, since, loader, history, hasty>>

TooOld(p) == filed[p] # Gone /\ filed[p] > RetainDays

PruneLooks(p) ==
    /\ pruner.pc = "looking" /\ p \in pruner.list
    /\ pruner' = [pc |-> IF TooOld(p) THEN "removing" ELSE "looking", list |-> pruner.list \ {p},
                  doomed |-> IF TooOld(p) THEN p ELSE NoPic]
    /\ UNCHANGED <<filed, since, loader, history, hasty>>

PruneRemoves ==
    /\ pruner.pc = "removing"
    /\ filed' = [filed EXCEPT ![pruner.doomed] = Gone]
    /\ pruner' = [pruner EXCEPT !.pc = "looking", !.doomed = NoPic]
    /\ UNCHANGED <<since, loader, history, hasty>>

PruneEnds ==
    /\ pruner.pc = "looking" /\ pruner.list = {}
    /\ pruner' = [pruner EXCEPT !.pc = "idle"]
    /\ UNCHANGED <<filed, since, loader, history, hasty>>

Older(age) == IF age < MaxAge THEN age + 1 ELSE age

DayPasses ==
    /\ filed' = [p \in Pics |-> Older(filed[p])] /\ since' = [p \in Pics |-> Older(since[p])]
    /\ UNCHANGED <<loader, pruner, history, hasty>>

PicNext ==
    \/ \E l \in PicLoaders :
          \/ \E wanted \in WantedPics : Want(l, wanted)
          \/ CannotRead(l) \/ PutLooks(l) \/ PutTouches(l) \/ PutRenames(l) \/ PutFails(l)
          \/ \E text \in {PromptText, MarkerText} : Prompted(l, text)
          \/ Viewed(l)
    \/ \E p \in Pics : PruneLooks(p)
    \/ PruneLists \/ PruneRemoves \/ PruneEnds \/ DayPasses

PicSpec == PicInit /\ [][PicNext]_picVars

-------------------------------------------------------------------------------
(* A request: Expand puts the bytes where the references are, and a note     *)
(* where a picture is gone; for OpenAI they are markers, swapped in the body *)
(* for items of the context that came with them.                             *)

Picture(p) == IF filed[p] # Gone THEN [kind |-> "bytes", pic |-> p] ELSE [kind |-> "note", pic |-> p]

ExpandPart(part) ==
    IF part.pic = NoPic THEN <<part>>
    ELSE IF part.kind = "image" THEN <<Picture(part.pic)>>
    ELSE <<part, Picture(part.pic)>>

Expanded(contents) ==
    [c \in DOMAIN contents |->
        FlattenSeq([i \in DOMAIN contents[c] |-> ExpandPart(contents[c][i])])]

(* The marker of a part is its own: named by its place.                      *)
Markers(contents) ==
    UNION {{<<c, i>> : i \in {i \in DOMAIN contents[c] : contents[c][i].kind = "bytes"}} : c \in DOMAIN contents}

OneMarker(contents, c, i) == CHOOSE m \in Markers(contents) : TRUE
Marker(contents, c, i) == <<c, i>>

WithMarkers(contents) ==
    [c \in DOMAIN contents |-> [i \in DOMAIN contents[c] |->
        IF contents[c][i].kind = "bytes" THEN [kind |-> "marker", pic |-> Marker(contents, c, i)]
        ELSE contents[c][i]]]

Rewritten(contents) ==
    LET marked == WithMarkers(contents)
    IN [c \in DOMAIN marked |-> [i \in DOMAIN marked[c] |->
           IF marked[c][i].kind = "marker" /\ marked[c][i].pic \in Markers(contents)
           THEN LET m == marked[c][i].pic IN [kind |-> "bytes", pic |-> contents[m[1]][m[2]].pic]
           ELSE marked[c][i]]]

(* shrink: to the longest edge allowed, the other in proportion.             *)
Scaled(w, h, most) ==
    IF w <= most /\ h <= most THEN <<w, h>>
    ELSE LET AtLeast1(n) == IF n < 1 THEN 1 ELSE n
         IN IF w >= h THEN <<most, AtLeast1((h * most) \div w)>> ELSE <<AtLeast1((w * most) \div h), most>>

-------------------------------------------------------------------------------
PicTypeOK ==
    /\ filed \in [Pics -> 0 .. Gone] /\ since \in [Pics -> 0 .. Gone] /\ hasty \subseteq Pics
    /\ \A l \in PicLoaders : loader[l].pc \in {"idle", "loading", "touching", "writing"}
    /\ pruner.pc \in {"idle", "looking", "removing"} /\ pruner.doomed \in Pics \cup {NoPic}

Attached == (UNION {{part.pic : part \in ToSet(history[c])} : c \in DOMAIN history}) \ {NoPic}

(* A picture of the history is there for as long as it is to be retained     *)
(* after it was last put, whatever another workspace loads or prunes, unless *)
(* it was put when it had just been found too old (store.go:39-44).          *)
Retained == \A p \in Attached : filed[p] # Gone \/ since[p] > RetainDays \/ p \in hasty

(* A request has what the history has, in its order: each picture in place   *)
(* of its reference and after the result it came with, or a note that it is  *)
(* gone; a prompt has no picture twice (store.go:144-148, openai_images.go). *)
SentPart(part) ==
    LET shown == IF part.pic = NoPic THEN <<>>
                 ELSE <<[kind |-> IF filed[part.pic] = Gone THEN "note" ELSE "bytes", pic |-> part.pic]>>
    IN IF part.kind = "image" THEN shown ELSE <<part>> \o shown

SentAsAttached ==
    \A c \in DOMAIN history :
        /\ Rewritten(Expanded(history))[c] = FoldLeft(LAMBDA s, part : s \o SentPart(part), <<>>, history[c])
        /\ \A i, j \in DOMAIN history[c] :
              history[c][i].kind = "image" /\ history[c][i] = history[c][j] => i = j

(* What is scaled fits, is still there, and keeps its shape.                 *)
ScaledToFit ==
    \A w, h \in 1 .. MaxEdge, most \in 1 .. 4 :
        LET s == Scaled(w, h, most)
        IN /\ s[1] \in 1 .. most /\ s[2] \in 1 .. most /\ s[1] <= w /\ s[2] <= h
           /\ (w >= h) => s[1] >= s[2]

PicturesKept == Retained /\ SentAsAttached /\ ScaledToFit
===============================================================================
