----------------------------- MODULE VoutDisplay -----------------------------
(***************************************************************************)
(* How a picture gets on the screen: the overlay made for a frame          *)
(* (ijksdl_vout_overlay_ffmpeg.c), the choice between the codec, EGL and   *)
(* the native window (ijksdl_vout_android_nativewindow.c), the EGL surface *)
(* with its renderer (ijksdl_egl.c, gles2/renderer*.c) and drawing on the  *)
(* window directly (android_nativewindow.c).                               *)
(*                                                                         *)
(* A display and a change of the window run under vout->mutex and are one  *)
(* step each; each call into EGL or the window that can fail may fail half *)
(* way through.  What a display returns is left out: video_image_display2  *)
(* does not look at it, and a swap that fails is not reported.             *)
(* A picture's width stands for its size: height, aspect ratio and gravity *)
(* are left out.  What the codec draws is in HwDecoder.                    *)
(***************************************************************************)
EXTENDS Integers

CONSTANTS OverlayFormats,  \* values of the option overlay-format that are considered
          SourceFrames,    \* the decoder's frames: pixel format, width, line size in bytes
          Windows,         \* the application's windows, from 1 on
          WindowFormats,   \* formats a window may have when it is new
          WindowWidth,     \* and its width
          MaxTurns         \* bound: pictures, changes of the window and failures together

ASSUME VoutAssumption ==
    /\ OverlayFormats \subseteq {"GLES2", "YV12", "I420", "RV16", "RV24", "RV32"}
    /\ SourceFrames \subseteq [pix : {"yuv420p", "yuv444p10", "rgb", "codec"},
                               width : Nat \ {0}, linesize : Nat]
    /\ Windows \subseteq Nat \ {0} /\ WindowWidth \in Nat \ {0} /\ MaxTurns \in Nat

VARIABLES
    overlayFormat,  \* ffp->overlay_format
    outWindow,      \* the vout's native_window
    geometry,       \* format and width of each window's next buffer
    egl,            \* IJK_EGL: the window it is for, whether display, surface and context
                    \* are there, the surface's width, the renderer
    picture,        \* the overlay that is displayed
    drawn,          \* history: the last display on this window
    turns           \* bound

voutVars == <<overlayFormat, outWindow, geometry, egl, picture, drawn, turns>>

NoWindow  == 0
NoPicture == [format |-> "none"]
NotDrawn  == [by |-> "nobody"]
-----------------------------------------------------------------------------
(* The overlay of a frame. *)

Align(n, to) == ((n + to - 1) \div to) * to

Rgb == {"RV16", "RV24", "RV32"}

\* SDL_VoutFFmpeg_CreateOverlay; with the option GLES2 the frame decides.
FormatFor(pix) ==
    CASE pix = "codec" -> "AMC"
      [] pix # "codec" /\ overlayFormat # "GLES2" -> overlayFormat
      [] pix = "yuv444p10" /\ overlayFormat = "GLES2" -> "I444P10LE"
      [] OTHER -> "YV12"

\* Bytes of a pixel in the first plane, and the pixels a buffer's width is a multiple of.
BytesOf == [YV12 |-> 1, I420 |-> 1, I444P10LE |-> 2, RV16 |-> 2, RV24 |-> 3, RV32 |-> 4]
AlignOf == [YV12 |-> 16, I420 |-> 16, I444P10LE |-> 16, RV16 |-> 8, RV24 |-> 16, RV32 |-> 4]

\* A frame that is in the overlay's format already is linked, any other is converted.
IsLinked(pix, format) == \/ pix = "yuv420p" /\ format \in {"YV12", "I420"}
                         \/ pix = "yuv444p10" /\ format = "I444P10LE"

\* The order of the planes after func_fill_frame: need_swap_uv puts v before u.
PlanesOf(format) == CASE format = "YV12" -> "yvu"
                      [] format \in Rgb -> "rgb"
                      [] OTHER -> "yuv"

Overlay(f) ==
    LET format == FormatFor(f.pix)
    IN  [format |-> format, width |-> f.width, planes |-> PlanesOf(format),
         pitch  |-> CASE format = "AMC" -> 0
                      [] IsLinked(f.pix, format) -> f.linesize
                      [] OTHER -> Align(f.width, AlignOf[format]) * BytesOf[format]]
-----------------------------------------------------------------------------
(* The renderers of GLES2. *)

\* func_getBufferWidth, and the order in which func_uploadTexture takes the planes.
YuvReads(format)  == IF format = "YV12" THEN "yvu" ELSE "yuv"
TenBitWidth(o)    == o.pitch \div 2
RgbWidth(o)       == CASE o.format = "RV16" -> o.pitch \div 2
                       [] o.format = "RV24" -> o.pitch \div 3
                       [] o.format = "RV32" -> o.pitch \div 4

BufferWidth(o) == CASE o.format \in Rgb -> RgbWidth(o)
                    [] o.format = "I444P10LE" -> TenBitWidth(o)
                    [] OTHER -> o.pitch

Reads(format) == CASE format \in Rgb -> "rgb"
                   [] format = "I444P10LE" -> "yuv"
                   [] OTHER -> YuvReads(format)

\* frame: frame_width; cropped: buffer_width and visible_width, which the texture is
\* cropped by; first (history): the buffer width of the first picture of this width.
NoRenderer == [format |-> "none", frame |-> 0, cropped |-> <<0, 0>>, first |-> 0]

\* IJK_GLES2_Renderer_create and _use.
NewRenderer(format) == [NoRenderer EXCEPT !.format = format]

\* IJK_GLES2_Renderer_renderOverlay: vertices_changed, or what else crops anew.
Rendered(r, o) ==
    LET buffer  == BufferWidth(o)
        changed == r.frame # o.width
    IN  [r EXCEPT
          !.frame = o.width,
          !.first = IF changed THEN buffer ELSE @,
          !.cropped = IF changed \/ (/\ buffer > o.width
                                     /\ buffer # r.cropped[1] /\ o.width # r.cropped[2])
                      THEN <<buffer, o.width>> ELSE @]
-----------------------------------------------------------------------------
(* EGL. *)

\* IJK_EGL_terminate keeps the window and does nothing when there is no surface.
Terminated ==
    IF egl.valid THEN [egl EXCEPT !.valid = FALSE, !.renderer = NoRenderer] ELSE egl

\* IJK_EGL_makeCurrent: the surface that is there for this window, or a new one.
IsCurrent == egl.valid /\ egl.window = outWindow

Current ==
    IF IsCurrent THEN egl
    ELSE [Terminated EXCEPT !.window = outWindow, !.valid = TRUE,
                            !.width = geometry[outWindow].width]

\* The window takes the format of the EGL configuration before the surface is created.
VisualSet == IF IsCurrent THEN geometry ELSE [geometry EXCEPT ![outWindow].format = "RGBX"]

\* IJK_EGL_prepareRenderer.
FormatFits == Current.renderer.format = picture.format
Prepared   == IF FormatFits THEN Current.renderer ELSE NewRenderer(picture.format)

\* IJK_EGL_setSurfaceSize.
SizeFits == Current.width = picture.width
SizeSet  == [VisualSet EXCEPT ![outWindow].width = picture.width]
Sized    == IF SizeFits THEN {VisualSet, SizeSet} ELSE {SizeSet}

Turn == turns < MaxTurns /\ turns' = turns + 1

\* How often the same picture was displayed before with nothing failing: 2 for twice or more.
Again == IF drawn.by # "nobody" /\ drawn.of = picture /\ ~drawn.fault
         THEN IF drawn.again = 0 THEN 1 ELSE 2
         ELSE 0

Shown(by, reads, cropped, width) ==
    drawn' = [by |-> by, of |-> picture, shown |-> TRUE, again |-> Again, fault |-> FALSE,
              reads |-> reads, cropped |-> cropped, width |-> width]

NotShown(by, fault) ==
    drawn' = [by |-> by, of |-> picture, shown |-> FALSE, again |-> Again, fault |-> fault]

CurrentFails ==
    /\ Turn /\ NotShown("egl", TRUE)
    /\ egl' = IF IsCurrent THEN egl ELSE [Terminated EXCEPT !.window = outWindow]
    /\ geometry' \in {geometry, VisualSet}

RendererFails ==
    /\ ~FormatFits
    /\ Turn /\ NotShown("egl", TRUE)
    /\ egl' = [Current EXCEPT !.renderer = NoRenderer]
    /\ geometry' = VisualSet

\* The surface has its new width at once, or only when the buffers are swapped.
AtOnceOrLater == {Current.width, picture.width}

\* setBuffersGeometry fails, or the query of the surface that follows it.  The first query may
\* fail as well: the size is set then whatever it was.
GeometryFails ==
    /\ Turn /\ NotShown("egl", TRUE)
    /\ \/ /\ egl' = [Current EXCEPT !.renderer = Prepared]
          /\ geometry' = VisualSet
       \/ /\ \E width \in AtOnceOrLater :
                egl' = [Current EXCEPT !.renderer = Prepared, !.width = width]
          /\ geometry' = SizeSet

\* The picture is drawn for the width that the surface answers with; the swap gives it the
\* width of its window.
Swaps ==
    LET drawnBy == Rendered(Prepared, picture)
    IN  /\ geometry' \in Sized
        /\ \E viewport \in AtOnceOrLater :
              Shown("egl", Reads(drawnBy.format), drawnBy.cropped, viewport)
        /\ egl' = [Current EXCEPT !.renderer = drawnBy, !.width = geometry'[outWindow].width]
        /\ UNCHANGED turns

\* Whether eglSwapBuffers succeeds is not looked at: the renderer has drawn, and nothing is seen.
SwapFails ==
    /\ Turn /\ NotShown("egl", TRUE)
    /\ geometry' \in Sized
    /\ \E width \in AtOnceOrLater :
          egl' = [Current EXCEPT !.renderer = Rendered(Prepared, picture), !.width = width]

ByEgl ==
    /\ \/ picture.format \in {"RV24", "I420", "I444P10LE"}
       \/ picture.format \in {"YV12", "RV16", "RV32"} /\ overlayFormat = "GLES2"
    /\ CurrentFails \/ RendererFails \/ GeometryFails \/ Swaps \/ SwapFails
-----------------------------------------------------------------------------
(* The native window. *)

Hal == [YV12 |-> "YV12", RV16 |-> "RGB565", RV32 |-> "RGBX"]

\* g_hal_fcc_map: the overlay that the render function of a window's format draws.
Draws == [YV12 |-> "YV12", RGB565 |-> "RV16", RGBX |-> "RV32", RGBA |-> "RV32", BGRA |-> "RV32"]

\* The buffer that fits the picture, and the one the window gives out once its format fits.
Wanted  == [format |-> Hal[picture.format], width |-> Align(picture.width, 2)]
Offered == IF geometry[outWindow].format = Hal[picture.format]
           THEN geometry[outWindow] ELSE Wanted

Known == geometry[outWindow].format \in DOMAIN Draws

SetGeometry(g) == geometry' = [geometry EXCEPT ![outWindow] = g]

\* setBuffersGeometry, lock or unlockAndPost fails; so does, unseen, the setBuffersGeometry
\* that follows a misfit.
WindowFails ==
    /\ Turn /\ NotShown("window", TRUE)
    /\ \/ Offered # geometry[outWindow] /\ UNCHANGED geometry
       \/ Known /\ SetGeometry(Offered)

\* A buffer of another size is posted as it is, and the next one is asked for.
WindowMisfits ==
    /\ ~Known \/ Offered.width # Wanted.width
    /\ NotShown("window", FALSE)
    /\ SetGeometry(Wanted)
    /\ UNCHANGED turns

\* The render function is that of the format the window had before.  That of RV32 asserts an
\* RV16 picture (android_nativewindow.c:102, :149): Application.mk defines NDEBUG, so that the
\* assertion is compiled out, and what is left copies the picture for 32 bits as it should.
WindowDraws ==
    /\ Known /\ Offered.width = Wanted.width
    /\ IF Draws[geometry[outWindow].format] = picture.format
       THEN Shown("window", Reads(picture.format), << >>, Offered.width)
       ELSE NotShown("window", FALSE)
    /\ SetGeometry(Offered)
    /\ UNCHANGED turns

\* SDL_Android_NativeWindow_display_l.
ByWindow ==
    /\ picture.format \in {"YV12", "RV16", "RV32"} /\ overlayFormat # "GLES2"
    /\ egl' = Terminated
    /\ WindowFails \/ WindowMisfits \/ WindowDraws

ByCodec ==
    /\ picture.format = "AMC"
    /\ egl' = Terminated
    /\ Shown("codec", "codec", << >>, picture.width)
    /\ UNCHANGED <<geometry, turns>>
-----------------------------------------------------------------------------
VoutInit ==
    /\ overlayFormat \in OverlayFormats
    /\ outWindow = NoWindow
    /\ geometry \in [Windows -> [format : WindowFormats, width : {WindowWidth}]]
    /\ egl = [window |-> NoWindow, valid |-> FALSE, width |-> 0, renderer |-> NoRenderer]
    /\ picture = NoPicture /\ drawn = NotDrawn
    /\ turns = 0

\* func_display_overlay; without a window it does nothing.
DisplayOverlay ==
    /\ outWindow # NoWindow /\ picture # NoPicture
    /\ ByEgl \/ ByWindow \/ ByCodec
    /\ UNCHANGED <<overlayFormat, outWindow, picture>>

\* queue_picture with alloc_picture, and the refresh that takes the picture.
NextPicture ==
    /\ Turn
    /\ \E f \in SourceFrames : picture' = Overlay(f)
    /\ UNCHANGED <<overlayFormat, outWindow, geometry, egl, drawn>>

\* Mutant of SetNativeWindow: EGL keeps the surface of the old window.
SetNativeWindowOnly ==
    /\ Turn
    /\ \E w \in Windows \cup {NoWindow} : w # outWindow /\ outWindow' = w
    /\ drawn' = NotDrawn
    /\ UNCHANGED <<overlayFormat, geometry, egl, picture>>

SetNativeWindow ==
    /\ Turn
    /\ \E w \in Windows \cup {NoWindow} : w # outWindow /\ outWindow' = w
    /\ egl' = Terminated
    /\ drawn' = NotDrawn
    /\ UNCHANGED <<overlayFormat, geometry, picture>>

VoutNext == DisplayOverlay \/ NextPicture \/ SetNativeWindow
VoutSpec == VoutInit /\ [][VoutNext]_voutVars
-----------------------------------------------------------------------------
\* A picture that is shown is shown right: whoever reads the planes takes them in the order
\* they were filled in, and the texture is cropped to the picture - unless the buffers of two
\* pictures of one width differ in width, which renderOverlay overlooks (renderer.c:404).  A
\* display that finds the window of another format or size repairs it: the second one of the
\* same picture shows it, and the third at the latest in its size, whatever failed before them
\* (android_nativewindow.c:235, egl.c:98).  EGL has a surface only while it draws on the vout's
\* present window, for the codec and the window itself cannot draw beside it.
PicturesDrawn ==
    /\ drawn.by # "nobody" =>
          /\ drawn.shown /\ drawn.by # "codec" => drawn.reads = drawn.of.planes
          /\ drawn.shown /\ drawn.by = "egl" =>
                /\ drawn.cropped = <<egl.renderer.first, drawn.of.width>>
                /\ egl.renderer.format = drawn.of.format
          /\ drawn.by # "codec" /\ ~drawn.fault =>
                /\ drawn.again >= 1 => drawn.shown
                /\ drawn.again = 2 /\ drawn.by = "egl" => drawn.width = drawn.of.width
    /\ egl.valid => drawn.by = "egl" /\ egl.window = outWindow
=============================================================================
