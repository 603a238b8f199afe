----------------------------- MODULE FrameImages -----------------------------
(***************************************************************************)
(* Pictures of a file as images (setFrameAtTime): with the option          *)
(* get-frame-mode the video decoder's thread does not fill the picture     *)
(* queue but converts num pictures, at even distances from start to end,   *)
(* into PNG files, and posts a message for each.                           *)
(*                                                                         *)
(* The request is written by the application's thread while the decoder    *)
(* runs, without a lock in common and field by field.  A division by       *)
(* num - 1 = 0 is "crashed" here: on the processors of the app it may also *)
(* give a number.  Only the aspect of a picture counts, a percentage.      *)
(***************************************************************************)
EXTENDS Integers, Sequences, FiniteSetsExt

CONSTANTS
    ImageRequests,   \* what may be asked for: [start, end, num, size]
    Shapes,          \* the aspects of the file's pictures: [num, den]
    LastPicture,     \* the time of the last picture
    MaxTries,        \* MAX_RETRY_CONVERT_IMAGE + 1
    MaxRequests      \* bound on the requests

ASSUME FrameImagesAssumption ==
    /\ \A r \in ImageRequests : r.start \in Int /\ r.end \in Int /\ r.num \in Int
    /\ \A s \in Shapes : s.num \in Nat \ {0} /\ s.den \in Nat \ {0}
    /\ LastPicture \in Nat /\ MaxTries \in Nat \ {0} /\ MaxRequests \in Nat

VARIABLES
    shape,     \* of the file's pictures
    info,      \* get_img_info
    asking,    \* the application: its place in ffp_set_frame_at_time, what it asks for
    thread,    \* ffplay_video_thread: its place and its locals
    scaler,    \* the size frame_img_convert_ctx and the encoder were opened with
    state,     \* the messages FFP_MSG_GET_IMG_STATE: images, failures
    requests,  \* so many were made
    missed     \* a picture that was due was let go

imageVars == <<shape, info, asking, thread, scaler, state, requests, missed>>

NoSize  == <<0, 0>>
NoInfo  == [there |-> FALSE, start |-> 0, end |-> 0, num |-> 0, count |-> 0, size |-> NoSize]
NobodyAsks == [pc |-> "none"]

ImagesInit ==
    /\ shape \in Shapes
    /\ info = NoInfo /\ asking = NobodyAsks
    /\ thread = [pc |-> "decodes", pts |-> -1, dst_pts |-> -1, last_dst_pts |-> -1,
                 tries |-> 0, ret |-> 0, converted |-> 0]
    /\ scaler = NoSize
    /\ state = [images |-> <<>>, failures |-> 0]
    /\ requests = 0 /\ missed = FALSE

Fails == state' = [state EXCEPT !.failures = @ + 1]

(***************************************************************************)
(* ffp_set_frame_at_time                                                   *)
(***************************************************************************)
Valid(r) == r.start >= 0 /\ r.num > 0 /\ r.end >= r.start

Ask(r) ==
    /\ asking.pc = "none" /\ requests < MaxRequests
    /\ requests' = requests + 1
    /\ \/ ~ info.there /\ Fails /\ UNCHANGED <<info, asking>>        \* no memory
       \/ /\ ~ Valid(r) /\ Fails
          /\ info' = [info EXCEPT !.there = TRUE, !.count = 0]
          /\ UNCHANGED asking
       \/ /\ Valid(r)
          /\ info' = [info EXCEPT !.there = TRUE, !.start = r.start, !.end = r.end, !.num = r.num]
          /\ asking' = [pc |-> "count", num |-> r.num, size |-> r.size]
          /\ UNCHANGED state
    /\ UNCHANGED <<shape, thread, scaler, missed>>

AskCount ==
    /\ asking.pc = "count"
    /\ info' = [info EXCEPT !.count = asking.num]
    /\ asking' = [asking EXCEPT !.pc = "size"]
    /\ UNCHANGED <<shape, thread, scaler, state, requests, missed>>

AskSize ==
    /\ asking.pc = "size"
    /\ info' = [info EXCEPT !.size = asking.size]
    /\ asking' = NobodyAsks
    /\ UNCHANGED <<shape, thread, scaler, state, requests, missed>>

(***************************************************************************)
(* ffplay_video_thread                                                     *)
(***************************************************************************)
InThread(pc) == thread.pc = pc

\* (A picture without a time is never due and leaves no trace.)
GetImageFrame ==
    /\ InThread("decodes")
    /\ \E pts \in thread.pts + 1 .. LastPicture : thread' = [thread EXCEPT !.pc = "checks", !.pts = pts]
    /\ UNCHANGED <<shape, info, asking, scaler, state, requests, missed>>

Due(k) == IF k = 1 THEN info.start
          ELSE info.start + (k - 1) * ((info.end - info.start) \div (info.num - 1))

\* The goal is the start, then a step further for every image; a picture that
\* comes too early puts it back.
CheckFrame ==
    /\ InThread("checks")
    /\ LET first == thread.dst_pts < 0
           next  == IF first THEN info.start
                    ELSE thread.dst_pts + (info.end - info.start) \div (info.num - 1)
       IN  thread' = IF info.count <= 0 THEN [thread EXCEPT !.pc = "decodes"]
                     ELSE IF ~ first /\ info.num = 1 THEN [thread EXCEPT !.pc = "crashed"]
                     ELSE IF thread.pts >= next
                     THEN [thread EXCEPT !.pc = "converts", !.last_dst_pts = thread.dst_pts, !.dst_pts = next]
                     ELSE [thread EXCEPT !.pc = "decodes", !.last_dst_pts = thread.dst_pts]
    /\ missed' = (missed \/ /\ thread'.pc = "decodes" /\ info.count > 0
                            /\ thread.pts >= Due(thread.converted + 1))
    /\ UNCHANGED <<shape, info, asking, scaler, state, requests>>

\* The size that was asked for, made smaller on one side to fit the pictures.
Fit(size) ==
    LET w == size[1]
        h == size[2]
        tmp == (w * shape.den) \div shape.num
    IN  IF (100 * shape.num) \div shape.den = (100 * w) \div h THEN size
        ELSE IF tmp > h THEN <<(h * shape.num) \div shape.den, h>> ELSE <<w, tmp>>

Done(ret) == thread' = [thread EXCEPT !.pc = "judges", !.ret = ret, !.converted = @ + 1]
FailsOnce == thread' = [thread EXCEPT !.ret = -1, !.tries = @ + 1,
                                      !.pc = IF thread.tries + 1 < MaxTries THEN @ ELSE "judges"]

\* Mutant of Image: a request for n images gets one more.
ImageLate ==
    /\ Done(0)
    /\ info' = [info EXCEPT !.size = Fit(@), !.count = @ - 1]
    /\ state' = [state EXCEPT !.images = Append(@, [pts |-> thread.pts, size |-> info'.size,
                                                    last |-> info.count <= 0])]

\* convert_image makes an image, the last one if no more are wanted.
Image ==
    /\ Done(0)
    /\ info' = [info EXCEPT !.size = Fit(@), !.count = @ - 1]
    /\ state' = [state EXCEPT !.images = Append(@, [pts |-> thread.pts, size |-> info'.size,
                                                    last |-> info'.count <= 0])]

\* It may also make none although nothing failed, or fail: at once without a
\* size, later with the scaler and the encoder left open.
Convert ==
    /\ InThread("converts")
    /\ IF info.size = NoSize THEN FailsOnce /\ UNCHANGED <<info, scaler, state>>
       ELSE /\ scaler' = IF scaler = NoSize THEN Fit(info.size) ELSE scaler
            /\ \/ Image
               \/ (Done(0) \/ FailsOnce) /\ info' = [info EXCEPT !.size = Fit(@)] /\ UNCHANGED state
    /\ UNCHANGED <<shape, asking, requests, missed>>

\* The thread ends with the last image, or when the conversion failed for good.
JudgeImage ==
    /\ InThread("judges")
    /\ thread' = [thread EXCEPT !.tries = 0, !.pc = IF thread.ret # 0 \/ info.count <= 0 THEN "ended" ELSE "decodes"]
    /\ IF thread.ret # 0 THEN Fails ELSE UNCHANGED state
    /\ UNCHANGED <<shape, info, asking, scaler, requests, missed>>

\* stream_close ends the thread, waits for it and frees the request.
Aborted ==
    /\ InThread("decodes")
    /\ thread' = [thread EXCEPT !.pc = "aborted"]
    /\ UNCHANGED <<shape, info, asking, scaler, state, requests, missed>>

StreamClose ==
    /\ thread.pc \in {"ended", "aborted"} /\ asking.pc = "none" /\ info.there
    /\ info' = NoInfo /\ scaler' = NoSize
    /\ thread' = [thread EXCEPT !.pc = "closed"]
    /\ UNCHANGED <<shape, asking, state, requests, missed>>

VideoThread == GetImageFrame \/ CheckFrame \/ Convert \/ JudgeImage \/ Aborted
ImagesNext == VideoThread \/ (\E r \in ImageRequests : Ask(r)) \/ AskCount \/ AskSize \/ StreamClose
ImagesSpec == ImagesInit /\ [][ImagesNext]_imageVars

(***************************************************************************)
(* Properties                                                              *)
(***************************************************************************)
\* One request that is valid: its images are made in order, each from the first
\* picture at or after its place between start and end, and never more than were
\* asked for; only the last one says so.  When the thread ends by itself the
\* application knows: it has all images, or one message of a failure.  The
\* scaler fits the images, if the size that was asked for settles at once.
\* (A second request finds the place and the scaler of the first.)
ImagesAsAsked ==
    requests = 1 /\ info.num > 0 /\ info.there =>
        LET k == Len(state.images)
        IN  /\ k <= info.num /\ ~ missed
            /\ asking.pc \notin {"count"} => k + info.count = info.num
            /\ \A i \in 1 .. k : /\ state.images[i].pts >= Due(i)
                                 /\ (state.images[i].last <=> i = info.num)
                                 /\ (i > 1 => state.images[i - 1].pts < state.images[i].pts)
            /\ thread.pc = "ended" => IF k = info.num THEN state.failures = 0 ELSE state.failures = 1
            /\ scaler # NoSize /\ Fit(scaler) = scaler => \A i \in 1 .. k : state.images[i].size = scaler
=============================================================================
