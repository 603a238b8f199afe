------------------------------ MODULE MCPlayer ------------------------------
(***************************************************************************)
(* The player's calls and what else they lead to, each part on its own     *)
(* (part says which one moves): IjkMediaPlayer, where every seek goes to   *)
(* the start; AccurateSeek with two seeks in a file of two frames;         *)
(* VideoRefresh for a few scenarios; FrameImages; MediaMeta.               *)
(***************************************************************************)
EXTENDS MCIjkMediaPlayer, AccurateSeek, VideoRefresh, FrameImages, MediaMeta

VARIABLE part

playerParts == <<part, vars, seekVars, refreshVars, imageVars, metaVars>>

TheTexts == <<[start |-> 1, end |-> 3], [start |-> 4, end |-> 6]>>

Scenario(m, drop, late, togglings, jumps, n) ==
    [master |-> m, framedrop |-> drop, late |-> late, togglings |-> togglings, jumps |-> jumps, texts |-> n]
TheScenarios == {Scenario("audio", TRUE, 1, 2, 0, 0), Scenario("audio", FALSE, 0, 0, 1, 2),
                 Scenario("video", TRUE, 0, 1, 1, 0), Scenario("external", TRUE, 0, 1, 1, 0)}

Request(start, end, num) == [start |-> start, end |-> end, num |-> num, size |-> <<160, 90>>]
TheRequests == {Request(1, 3, 3), Request(0, 3, 1), Request(2, 1, 2)}
TheShapes == {[num |-> 16, den |-> 9], [num |-> 4, den |-> 3], [num |-> 9, den |-> 16]}

TheFiles == {<<"video", "audio">>, <<"audio", "video", "audio">>, <<"unknown", "audio", "timedtext">>}

CallsPart(A)   == part = "calls" /\ A /\ UNCHANGED <<part, seekVars, refreshVars, imageVars, metaVars>>
SeekPart(A)    == part = "seek" /\ A /\ UNCHANGED <<part, vars, refreshVars, imageVars, metaVars>>
RefreshPart(A) == part = "refresh" /\ A /\ UNCHANGED <<part, vars, seekVars, imageVars, metaVars>>
ImagesPart(A)  == part = "images" /\ A /\ UNCHANGED <<part, vars, seekVars, refreshVars, metaVars>>
MetaPart(A)    == part = "meta" /\ A /\ UNCHANGED <<part, vars, seekVars, refreshVars, imageVars>>

\* Of the parts that do not move one initial state is as good as another.
Still(name, x, xs) == part # name => x = CHOOSE y \in xs : TRUE

PartsInit ==
    /\ part \in {"calls", "seek", "refresh", "images", "meta"}
    /\ Init /\ SeekInit /\ RefreshInit /\ ImagesInit /\ MetaInit
    /\ part # "seek" => streams = Decoders
    /\ Still("refresh", scenario, Scenarios)
    /\ Still("images", shape, Shapes)
    /\ Still("meta", file, Files) /\ Still("meta", delayed, BOOLEAN)
PartsNext == CallsPart(Next) \/ SeekPart(SeekNext) \/ RefreshPart(RefreshNext)
             \/ ImagesPart(ImagesNext) \/ MetaPart(MetaNext)
PartsSpec == PartsInit /\ [][PartsNext]_playerParts
=============================================================================
