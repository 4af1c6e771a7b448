---------------------------- MODULE ImageCalls -----------------------------
(***************************************************************************)
(* What the calls that make, change and write pictures own: the codecs of  *)
(* the native core (image/image_decoder.cpp, image/image_encoder.cpp), and *)
(* the rendering, export and text of the image engine (compositor.cpp,     *)
(* export_pipeline.cpp, text_renderer.cpp) over the frames of the engine   *)
(* (core/engine.cpp).                                                      *)
(*                                                                         *)
(* A frame is its header and its pixels: a block of the engine's pool, or  *)
(* malloc's.  Both branches of #if are paths: one build has some of them.  *)
(***************************************************************************)
EXTENDS CallSteps

\* gopost_frame_acquire() and gopost_frame_release(): the pool takes back its
\* own blocks only, so that pixels malloc gave are not freed.
gopost_frame_acquire ==
    <<Check({}), Check({}), Get("pool block", {}), Get("frame", {"pool block"})>>
gopost_frame_release == <<Check({}), FreeIfThere({"pool block"}), Free({"frame"})>>

-----------------------------------------------------------------------------
\* Decoding, with ImageIO and with stb_image.
decode_with_imageio ==
    <<Get("cf data", {}), Get("source", {"cf data"}), Free({"cf data"}),
      Get("cg image", {"source"}), Free({"source"}),
      Get("frame", {"cg image"}), Get("pixels", {"frame", "cg image"}),
      Get("cg context", {"pixels", "frame", "cg image"}),
      Free({"cg context"}), Free({"cg image"})>>

\* Scaling down to the size asked for is given up when malloc fails.
Scaled == <<Take("resized"), Free({"decoded"}), Becomes("resized", "decoded")>>
decode_fallback(scaling) ==
    <<Get("decoded", {})>> \o scaling
    \o <<Get("frame", {"decoded"}), Get("pixels", {"frame", "decoded"}), Free({"decoded"})>>

gopost_image_decode ==
    {<<Check({})>> \o w : w \in {decode_with_imageio, decode_fallback(<<>>), <<Refuse({})>>}}
gopost_image_decode_resize ==
    {<<Check({})>> \o w : w \in {decode_with_imageio, decode_fallback(<<>>),
                                 decode_fallback(Scaled), <<Refuse({})>>}}

gopost_image_decode_file ==
    OneOf(<<Check({}), Get("file", {}), Check({"file"}), Get("file bytes", {"file"}),
            Free({"file"}), Check({"file bytes"})>>,
          {Within(w, {"file bytes"}) : w \in gopost_image_decode},
          <<Free({"file bytes"})>>)

-----------------------------------------------------------------------------
\* Encoding.  The encoders grow their output by realloc, which leaves the block
\* as it is when it fails.
encode_with_imageio ==
    LET three == {"consumer", "encoded", "cg image"}
    IN  <<Get("cg context", {}), Get("cg image", {"cg context"}), Free({"cg context"}),
          Get("encoded", {"cg image"}), Get("consumer", {"encoded", "cg image"}),
          Get("destination", three), Free({"consumer"}), Take("options"), Free({"options"}),
          Free({"destination"}), Free({"cg image"}), Check({"encoded"})>>

\* stb_image_write into a block that stb_write_func() fills.
encode_with_stb == <<Get("encoded", {}), Check({"encoded"})>>
encode_with_libwebp == <<Get("webp", {}), Get("encoded", {"webp"}), Free({"webp"})>>

Encoder(ways) == {<<Check({})>> \o w : w \in ways \cup {encode_with_imageio, <<Refuse({})>>}}
gopost_image_encode_jpeg == Encoder({encode_with_stb})
gopost_image_encode_png == Encoder({encode_with_stb})
gopost_image_encode_webp == Encoder({encode_with_libwebp})
gopost_image_encode_heic == Encoder({})
gopost_image_encode_bmp == Encoder({encode_with_stb})
Encoders == gopost_image_encode_jpeg \cup gopost_image_encode_png
            \cup gopost_image_encode_webp \cup gopost_image_encode_heic
            \cup gopost_image_encode_bmp

\* Fault: the encoded bytes are freed once more when not all were written.
Written_FreesTwice(bytes) ==
    <<Get("file", {bytes}), Free({"file"}), Free({bytes}), Check({bytes})>>

\* The encoded bytes are freed before the count of written ones is looked at.
Written(bytes) == <<Get("file", {bytes}), Free({"file"}), Free({bytes}), Check({})>>
gopost_image_encode_to_file == OneOf(<<Check({})>>, Encoders, Written("encoded"))

CodecLibrary ==
    [gopost_image_decode |-> Call({}, {"frame"}, gopost_image_decode),
     gopost_image_decode_resize |-> Call({}, {"frame"}, gopost_image_decode_resize),
     gopost_image_decode_file |-> Call({}, {"frame"}, gopost_image_decode_file),
     gopost_render_frame_free |->
        Call({"frame", "pixels"}, {}, {<<Free({"pixels"}), Free({"frame"})>>}),
     gopost_image_encode |-> Call({"frame"}, {"encoded"}, Encoders),
     gopost_image_encode_to_file |-> Call({"frame"}, {"encoded"}, gopost_image_encode_to_file),
     gopost_image_encode_free |-> Call({"encoded"}, {}, {<<Free({"encoded"})>>})]
CodecObjects == {AllOrNothing({"frame", "pixels"}), AllOrNothing({"encoded"})}

-----------------------------------------------------------------------------
\* Rendering a canvas into a frame of the pool or, when it has none, malloc's.
PooledFrame == <<Check({})>> \o Succeeding(gopost_frame_acquire)
HeapFrame == <<Check({}), Get("frame", {}), Get("own pixels", {"frame"})>>
gopost_canvas_render == {PooledFrame, HeapFrame}
gopost_canvas_render_region == {PooledFrame, HeapFrame}

\* The caller gets the pixels without the frame, to be passed to free(); for a
\* block of the pool no call takes them back (finally: the pool's destructor).
gopost_canvas_render_gpu ==
    {<<Check({})>> \o PooledFrame \o <<Becomes("pool block", "gpu block"), Free({"frame"})>>,
     <<Check({})>> \o HeapFrame \o <<Becomes("own pixels", "gpu block"), Free({"frame"})>>}

ExportEncoders == gopost_image_encode_jpeg \cup gopost_image_encode_png
                  \cup gopost_image_encode_webp

\* resize_frame() gives nothing when malloc fails.
release_frame == <<FreeIfThere({"pool block"}), Free({"frame"})>>
Resized == {release_frame \o <<Refuse({})>>,
            <<Take("work frame"), Take("work pixels")>> \o release_frame}
free_frame == {"work frame", "work pixels"}

\* Fault: cancelling half-way forgets the frame that was to be encoded.
AfterRender_Forgets(work) ==
    OneOf(<<Check({})>>, {Closing(e, work) : e \in ExportEncoders}, <<FreeIfThere(work)>>)

\* From the callback at one half on, with work the frame that is encoded.
AfterRender(work) ==
    OneOf(Closing(<<Check({})>>, work), {Closing(e, work) : e \in ExportEncoders},
          <<FreeIfThere(work)>>)

\* gopost_export_to_buffer(): the progress callback may cancel three times.
gopost_export_to_buffer ==
    LET ways == AfterRender({"frame", "pool block"})
                \cup {r \o a : r \in Resized, a \in AfterRender(free_frame)}
    IN  {<<Check({}), Check({})>> \o r \o w \o <<Check({"encoded"})>>
            : r \in gopost_canvas_render, w \in ways}

gopost_export_to_file == {b \o Written("encoded") : b \in gopost_export_to_buffer}

-----------------------------------------------------------------------------
\* Text.  The layer gets a copy of the rendered text.
gopost_text_rasterize ==
    <<Check({}), Check({}), Get("text frame", {}), Get("text pixels", {"text frame"})>>
TextFrame == {"text frame", "text pixels"}

add_image_layer == <<Check({}), Get("layer", {}), Get("layer pixels", {"layer"})>>
update_layer_pixels ==
    <<Check({}), Get("new pixels", {}), Free({"layer pixels"}),
      Becomes("new pixels", "layer pixels")>>

gopost_canvas_add_text_layer ==
    <<Check({})>> \o gopost_text_rasterize \o Within(add_image_layer, TextFrame)
    \o <<Free(TextFrame)>>
gopost_canvas_update_text_layer ==
    <<Check({})>> \o gopost_text_rasterize \o Within(update_layer_pixels, TextFrame)
    \o <<Free(TextFrame)>>

CanvasLibrary ==
    [gopost_canvas_render |-> Call({}, {"frame"}, gopost_canvas_render),
     gopost_canvas_render_region |-> Call({}, {"frame"}, gopost_canvas_render_region),
     gopost_canvas_render_gpu |-> Call({}, {"frame"}, gopost_canvas_render_gpu),
     gopost_frame_release |-> Call({"frame"}, {}, {gopost_frame_release}),
     gopost_export_to_buffer |-> Call({}, {"frame", "encoded"}, gopost_export_to_buffer),
     gopost_export_to_file |-> Call({}, {"frame", "encoded"}, gopost_export_to_file),
     gopost_export_free |-> Call({"encoded"}, {}, {<<Free({"encoded"})>>}),
     gopost_canvas_add_text_layer |-> Call({}, {"layer"}, {gopost_canvas_add_text_layer}),
     gopost_canvas_update_text_layer |->
        Call({"layer"}, {}, {gopost_canvas_update_text_layer}),
     remove_layer |-> Call({"layer"}, {}, {<<Free({"layer", "layer pixels"})>>})]
CanvasObjects ==
    {Object({"frame", "pool block"}, {{}, {"frame", "pool block"}, {"frame"}}),
     AllOrNothing({"encoded"}), AllOrNothing({"layer", "layer pixels"})}

\* Pixels malloc gave while the pool was full are not freed by
\* gopost_frame_release(), and those of render_gpu() by no call at all.
ImageLeaks == {"own pixels", "gpu block"}
=============================================================================
