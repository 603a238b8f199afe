------------------------------ MODULE MediaMeta ------------------------------
(***************************************************************************)
(* The media meta data (ijkmeta.c): a dictionary of facts about the file   *)
(* and a list with an entry for each of its streams.  read_thread fills it *)
(* once the streams are open - before PREPARED, or with the option         *)
(* ijkmeta-delay-init when the first picture and sound are out - and the   *)
(* application copies it into a Bundle at any time (getMediaMeta), which   *)
(* IjkMediaMeta.parse takes apart.                                         *)
(*                                                                         *)
(* The copy holds meta->mutex; read_thread does not take it, although it   *)
(* calls functions named _l.  What a copy finds while a dictionary or the  *)
(* list is being moved is undefined: torn stands for it.                   *)
(***************************************************************************)
EXTENDS Integers, Sequences

CONSTANTS
    Files,          \* the files: for each the kinds of its streams, in order
    InitCapacity,   \* IJK_META_INIT_CAPACITY
    MetaMayFail     \* ijkmeta_create of a stream may fail

ASSUME MediaMetaAssumption ==
    /\ Files \subseteq Seq({"video", "audio", "timedtext", "unknown"})
    /\ InitCapacity \in Nat \ {0} /\ MetaMayFail \in BOOLEAN

VARIABLES
    file,      \* the streams of the file (ic->streams)
    delayed,   \* ffp->ijkmeta_delay_init
    meta,      \* what is filled in, and the part that is just being moved
    writer,    \* read_thread: its place, and the stream it is at
    bundle,    \* what the application copies, and when it began
    lost       \* a stream was left out

metaVars == <<file, delayed, meta, writer, bundle, lost>>

Facts == <<"format", "duration_us", "start_us", "bitrate">>
Chosen == <<"video", "audio", "timedtext">>

Create == [facts |-> {}, chosen |-> [k \in {} |-> 0], children |-> <<>>, capacity |-> 0, moving |-> "nothing"]
NoBundle == [pc |-> "none", prepared |-> FALSE, facts |-> {}, chosen |-> [k \in {} |-> 0],
             count |-> 0, children |-> <<>>, torn |-> FALSE]

MetaInit ==
    /\ file \in Files /\ delayed \in BOOLEAN
    /\ meta = Create
    /\ writer = [pc |-> "opened", at |-> 1]
    /\ bundle = NoBundle
    /\ lost = FALSE

At(pc) == writer.pc = pc
Moves(part) == [meta EXCEPT !.moving = part]

\* The components are open: the file's facts now, or later.
Opened ==
    /\ At("opened")
    /\ writer' = [pc |-> IF delayed THEN "choose" ELSE "facts", at |-> 1]
    /\ UNCHANGED <<file, delayed, meta, bundle, lost>>

\* av_dict_set may move the dictionary: a set is seen begun and ended.
DictMoves ==
    /\ meta.moving = "nothing"
    /\ \/ At("facts") /\ writer.at <= Len(Facts)
       \/ At("choose") /\ writer.at <= Len(Chosen)
    /\ meta' = Moves("dict")
    /\ UNCHANGED <<file, delayed, writer, bundle, lost>>

SetFact ==
    /\ At("facts") /\ meta.moving = "dict"
    /\ meta' = [Moves("nothing") EXCEPT !.facts = @ \cup {Facts[writer.at]}]
    /\ writer' = [writer EXCEPT !.at = @ + 1]
    /\ UNCHANGED <<file, delayed, bundle, lost>>

FactsSet ==
    /\ At("facts") /\ writer.at > Len(Facts)
    /\ writer' = [pc |-> "streams", at |-> 1]
    /\ UNCHANGED <<file, delayed, meta, bundle, lost>>

\* An entry is made for each stream and filled before it is put into the list.
CreateFails ==
    /\ At("streams") /\ writer.at <= Len(file) /\ meta.moving = "nothing" /\ MetaMayFail
    /\ writer' = [writer EXCEPT !.at = @ + 1]
    /\ lost' = TRUE
    /\ UNCHANGED <<file, delayed, meta, bundle>>

FullList == meta.capacity > 0 /\ Len(meta.children) >= meta.capacity

\* The list that is full is freed before the new one takes its place.
ListMoves ==
    /\ At("streams") /\ writer.at <= Len(file) /\ meta.moving = "nothing"
    /\ FullList
    /\ meta' = [Moves("list") EXCEPT !.capacity = 2 * @]
    /\ UNCHANGED <<file, delayed, writer, bundle, lost>>

Append1 == [Moves("nothing") EXCEPT !.children = Append(@, file[writer.at]),
                                    !.capacity = IF @ = 0 THEN InitCapacity ELSE @]

\* Mutant of AppendChild: the list does not take the child that made it grow.
AppendChildGrows ==
    /\ At("streams") /\ writer.at <= Len(file)
    /\ ~ FullList
    /\ meta' = IF meta.moving = "list" THEN Moves("nothing") ELSE Append1
    /\ writer' = [writer EXCEPT !.at = @ + 1]
    /\ UNCHANGED <<file, delayed, bundle, lost>>

AppendChild ==
    /\ At("streams") /\ writer.at <= Len(file)
    /\ ~ FullList
    /\ meta' = Append1
    /\ writer' = [writer EXCEPT !.at = @ + 1]
    /\ UNCHANGED <<file, delayed, bundle, lost>>

StreamsAppended ==
    /\ At("streams") /\ writer.at > Len(file)
    /\ writer' = [pc |-> IF delayed THEN "done" ELSE "choose", at |-> 1]
    /\ UNCHANGED <<file, delayed, meta, bundle, lost>>

\* The streams that are played, by their index in the file: the best of their
\* kind, if the file has any.
Choose ==
    /\ At("choose") /\ meta.moving = "dict"
    /\ LET kind == Chosen[writer.at]
           some == {i \in DOMAIN file : file[i] = kind}
       IN  \/ \E i \in some : meta' = [Moves("nothing") EXCEPT !.chosen = [k \in DOMAIN @ \cup {kind} |->
                                                                            IF k = kind THEN i - 1 ELSE @[k]]]
           \/ some = {} /\ meta' = Moves("nothing")
    /\ writer' = [writer EXCEPT !.at = @ + 1]
    /\ UNCHANGED <<file, delayed, bundle, lost>>

Prepared ==
    /\ At("choose") /\ writer.at > Len(Chosen)
    /\ writer' = [pc |-> "prepared", at |-> 1]
    /\ UNCHANGED <<file, delayed, meta, bundle, lost>>

\* The first picture and the first sound are out.
Rendered ==
    /\ At("prepared") /\ delayed
    /\ writer' = [pc |-> "facts", at |-> 1]
    /\ UNCHANGED <<file, delayed, meta, bundle, lost>>

ReadThread == \/ Opened \/ DictMoves \/ SetFact \/ FactsSet \/ CreateFails \/ ListMoves \/ AppendChild
              \/ StreamsAppended \/ Choose \/ Prepared \/ Rendered

(***************************************************************************)
(* getMediaMeta: each line may find a part on the move.                    *)
(***************************************************************************)
Torn(part) == bundle.torn \/ meta.moving = part

GetMediaMeta ==
    /\ bundle.pc = "none"
    /\ bundle' = [NoBundle EXCEPT !.pc = "facts", !.prepared = At("prepared")]
    /\ UNCHANGED <<file, delayed, meta, writer, lost>>

FillFacts ==
    /\ bundle.pc = "facts"
    /\ bundle' = [bundle EXCEPT !.pc = "chosen", !.facts = meta.facts, !.torn = Torn("dict")]
    /\ UNCHANGED <<file, delayed, meta, writer, lost>>

FillChosen ==
    /\ bundle.pc = "chosen"
    /\ bundle' = [bundle EXCEPT !.pc = "count", !.chosen = meta.chosen, !.torn = Torn("dict")]
    /\ UNCHANGED <<file, delayed, meta, writer, lost>>

ChildrenCount ==
    /\ bundle.pc = "count"
    /\ bundle' = [bundle EXCEPT !.pc = "children", !.count = Len(meta.children)]
    /\ UNCHANGED <<file, delayed, meta, writer, lost>>

FillChild ==
    /\ bundle.pc = "children" /\ Len(bundle.children) < bundle.count
    /\ bundle' = [bundle EXCEPT !.children = Append(@, meta.children[Len(@) + 1]), !.torn = Torn("list")]
    /\ UNCHANGED <<file, delayed, meta, writer, lost>>

\* The bundle is returned, or java could not make one of its parts.
Returned ==
    /\ \/ bundle.pc = "children" /\ Len(bundle.children) = bundle.count
          /\ bundle' = [bundle EXCEPT !.pc = "returned"]
       \/ bundle.pc \in {"facts", "count", "children"}
          /\ bundle' = [NoBundle EXCEPT !.pc = "refused"]
    /\ UNCHANGED <<file, delayed, meta, writer, lost>>

MetaApp == GetMediaMeta \/ FillFacts \/ FillChosen \/ ChildrenCount \/ FillChild \/ Returned

MetaNext == ReadThread \/ MetaApp
MetaSpec == MetaInit /\ [][MetaNext]_metaVars

(***************************************************************************)
(* Properties                                                              *)
(***************************************************************************)
\* The entry that the index of the native side leads to is of the kind it is for.  (The
\* java side follows the indices of video and audio; it reads that of the text only.)
Parsed(k) == bundle.chosen[k] + 1 \in DOMAIN bundle.children
             /\ bundle.children[bundle.chosen[k] + 1] = k

\* Without a lock in common a bundle is still made of whole entries in the order
\* of the file, and one that is asked for after PREPARED is complete: it has all
\* facts, every stream, and leads from each stream that is played to its entry.
\* (Not with the delayed filling, while the list or the dictionary moves, or
\* when an entry could not be made: then the indices name the wrong entries.)
MetaIsWhole ==
    bundle.pc = "returned" /\ ~ lost =>
        /\ ~ bundle.torn => bundle.children = SubSeq(file, 1, bundle.count)
        /\ bundle.prepared /\ ~ delayed =>
              /\ ~ bundle.torn
              /\ bundle.facts = {Facts[i] : i \in DOMAIN Facts}
              /\ bundle.count = Len(file)
              /\ \A k \in {"video", "audio", "timedtext"} :
                     (\E i \in DOMAIN file : file[i] = k) => k \in DOMAIN bundle.chosen /\ Parsed(k)
=============================================================================
