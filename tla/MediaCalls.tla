---------------------------- MODULE MediaCalls -----------------------------
(***************************************************************************)
(* What the engine, the GPU contexts and the decoders and probes of media  *)
(* files own: core/engine.cpp, core/allocator.cpp, gpu/gpu_factory.cpp,    *)
(* and the decoders of the video engine over FFmpeg, AVFoundation and      *)
(* nothing (the _ffmpeg, _avf and _stub files).                            *)
(*                                                                         *)
(* A decoder keeps its members from open() to close(); open() may be       *)
(* called again, on an open decoder or after a failure.  A packet and a    *)
(* decoded picture are filled in by FFmpeg and have to be unreferenced     *)
(* before they are filled again.  What ARC releases on every way out of a  *)
(* function is dropped by each of them.                                    *)
(***************************************************************************)
EXTENDS ImageCalls

\* The engine and its frame pool.
gopost_frame_pool_create ==
    <<Get("allocator", {}), Get("pool", {"allocator"})>>
gopost_engine_create ==
    <<Check({}), Get("engine", {})>> \o Within(gopost_frame_pool_create, {"engine"})
gopost_frame_pool_destroy ==
    <<FreeIfThere({"pool block"}), Free({"allocator"}), Free({"pool"})>>
gopost_engine_destroy == <<Check({})>> \o gopost_frame_pool_destroy \o <<Free({"engine"})>>

\* GPU contexts: initialize() and createTexture() of both back ends are stubs.
gopost_gpu_create_for_platform ==
    LET context == {"gpu context", "gpu back end"}
    IN  <<Check({}), Get("gpu context", {}), Take("gpu back end"), Check(context)>>
gopost_gpu_destroy == <<Check({}), Free({"gpu context", "gpu back end"})>>
gopost_gpu_create_texture == <<Check({}), Get("texture", {}), Check({"texture"})>>
gopost_gpu_destroy_texture == <<Check({}), Free({"texture"})>>
gopost_gpu_upload_texture == <<Check({}), Check({})>>

Gpu == {"gpu context", "gpu back end"}
EngineLibrary ==
    [gopost_engine_create |-> Call({}, {"engine"}, {gopost_engine_create}),
     gopost_engine_destroy |-> Call({"engine"}, {"frame"}, {gopost_engine_destroy}),
     gopost_frame_acquire |-> Call({"engine"}, {"frame"}, {gopost_frame_acquire}),
     gopost_frame_release |-> Call({"engine", "frame"}, {}, {gopost_frame_release}),
     gpu_create_for_platform |-> Call({}, Gpu, {gopost_gpu_create_for_platform}),
     gpu_destroy |-> Call(Gpu, {"texture"}, {gopost_gpu_destroy}),
     gpu_create_texture |-> Call(Gpu, {"texture"}, {gopost_gpu_create_texture}),
     gpu_destroy_texture |-> Call(Gpu \cup {"texture"}, {}, {gopost_gpu_destroy_texture}),
     gpu_upload_texture |-> Call(Gpu \cup {"texture"}, {}, {gopost_gpu_upload_texture})]
EngineObjects ==
    {AllOrNothing({"engine", "allocator", "pool"}), AllOrNothing({"frame", "pool block"}),
     AllOrNothing(Gpu), AllOrNothing({"texture"})}

-----------------------------------------------------------------------------
\* FFmpeg.  close() looks at each member; every failure in open() goes there.
Members == {"format", "codec", "scaler", "resampler", "av frame", "av packet"}
close == <<FreeIfThere(Members)>>

\* The container, the stream in it and its codec.
OpenCodec ==
    <<Get("format", {}), Check({}), Check({}), Check({}), Get("codec", {}), Check({}), Check({})>>
FrameAndPacket == <<Get("av frame", {}), Get("av packet", {})>>

video_open == close \o <<Check({})>>
              \o Closing(OpenCodec \o <<Get("scaler", {})>> \o FrameAndPacket, Members)
\* Fault: the codec of the file before is kept when there is no such stream.
audio_open_Forgets == <<FreeIfThere(Members \ {"codec"}), Check({})>>
                      \o Closing(OpenCodec \o FrameAndPacket, Members)

audio_open == close \o <<Check({})>> \o Closing(OpenCodec \o FrameAndPacket, Members)

\* One packet read: of another stream, refused or not enough for a picture; or
\* with a picture before the time sought.
Packet == <<Take("packet data"), Free({"packet data"})>>
Picture == <<Take("picture"), Free({"picture"})>>
Skipped == {Packet, Packet \o Picture}
Reading == {<<>>} \cup Skipped \cup {a \o b : a \in Skipped, b \in Skipped}

\* Fault: the picture stays referenced when the pool has no frame.
convert_frame_to_rgba_Forgets ==
    <<Take("picture")>> \o gopost_frame_acquire \o <<Free({"picture"})>>

convert_frame_to_rgba ==
    <<Take("picture")>> \o Within(gopost_frame_acquire, {"picture"}) \o <<Free({"picture"})>>

\* The picture found is converted, or the one that draining the codec gives.
video_decode_frame_at ==
    {<<Check({})>> \o r \o last :
        r \in Reading,
        last \in {Packet \o convert_frame_to_rgba, convert_frame_to_rgba,
                  Packet \o <<Refuse({})>>, <<Refuse({})>>}}

\* A resampler is made for each rate; an old one is freed first.
ensure_resampler ==
    <<FreeIfThere({"resampler"}), Get("resampler", {}), Check({"resampler"})>>
audio_decode_anew == {<<Check({}), Check({})>> \o ensure_resampler \o r : r \in Reading}
audio_decode_again == {<<Check({}), Check({})>> \o r : r \in Reading}

probe_ffmpeg ==
    <<Check({}), Get("probed", {}), Check({"probed"}), Free({"probed"}), Check({})>>

Codec == {"format", "codec", "av frame", "av packet"}
VideoLibrary ==
    [open |-> Call({}, {}, {video_open}),
     close |-> Call({}, {}, {close}),
     decode_frame_at |-> Call(Codec, {"frame"}, video_decode_frame_at),
     gopost_frame_release |-> Call({"frame"}, {}, {gopost_frame_release}),
     probe_media |-> Call({}, {}, {probe_ffmpeg})]
VideoObjects == {AllOrNothing(Codec \cup {"scaler"}), AllOrNothing({"frame", "pool block"})}

AudioLibrary ==
    [open |-> Call({}, {}, {audio_open}),
     close |-> Call({}, {}, {close}),
     decode_anew |-> Call(Codec, {}, audio_decode_anew),
     decode_again |-> Call(Codec \cup {"resampler"}, {}, audio_decode_again)]
AudioObjects ==
    {Object(Codec \cup {"resampler"}, {{}, Codec, Codec \cup {"resampler"}})}

-----------------------------------------------------------------------------
\* AVFoundation.  A file without the track sought leaves the video decoder with
\* the asset (and closed: is_open() looks at the path first); the audio decoder
\* lets it go.
avf_video_close == <<FreeIfThere({"generator", "asset", "path"})>>
avf_video_open ==
    avf_video_close \o <<Check({}), Get("asset", {}), Check({}),
                         Take("generator"), Take("path")>>
avf_audio_close == <<FreeIfThere({"audio asset", "track", "audio path"})>>
avf_audio_open ==
    avf_audio_close \o <<Check({}), Get("audio asset", {}), Check({"audio asset"}),
                         Take("track"), Take("audio path")>>

\* The picture is drawn into the frame unless there is no context to draw with.
avf_video_decode ==
    OneOf(<<Check({}), Get("cg image", {})>> \o Within(gopost_frame_acquire, {"cg image"}),
          {<<>>, <<Take("cg context"), Free({"cg context"})>>}, <<Free({"cg image"})>>)

SampleBuffer == <<Take("sample buffer"), Free({"sample buffer"})>>
avf_audio_decode ==
    OneOf(<<Check({}), Check({}), Get("reader", {}), Check({"reader"})>>,
          {<<>>, SampleBuffer, SampleBuffer \o SampleBuffer}, <<Free({"reader"})>>)

probe_avf == <<Check({}), Get("probed", {}), Check({"probed"}), Free({"probed"})>>

AppleVideo == {"asset", "generator", "path"}
AppleAudio == {"audio asset", "track", "audio path"}
AppleLibrary ==
    [video_open |-> Call({}, {}, {avf_video_open}),
     video_close |-> Call({}, {}, {avf_video_close}),
     video_decode |-> Call(AppleVideo, {"frame"}, avf_video_decode),
     gopost_frame_release |-> Call({"frame"}, {}, {gopost_frame_release}),
     audio_open |-> Call({}, {}, {avf_audio_open}),
     audio_close |-> Call({}, {}, {avf_audio_close}),
     audio_decode |-> Call(AppleAudio, {}, avf_audio_decode),
     probe_media |-> Call({}, {}, {probe_avf})]
AppleObjects ==
    {Object(AppleVideo, {{}, {"asset"}, AppleVideo}), AllOrNothing(AppleAudio),
     AllOrNothing({"frame", "pool block"})}

\* Without a media library: the video decoder takes any path but the empty one,
\* which closes it; the audio decoder's open("") fails and changes nothing.
stub_video_open == <<FreeIfThere({"path"}), Check({}), Take("path")>>
stub_audio_open == <<Check({}), FreeIfThere({"audio path"}), Take("audio path")>>
stub_decode_frame_at == <<Check({})>> \o gopost_frame_acquire
stub_decode_audio_at == <<Check({}), Check({})>>
StubLibrary ==
    [video_open |-> Call({}, {}, {stub_video_open}),
     video_close |-> Call({}, {}, {<<FreeIfThere({"path"})>>}),
     video_decode |-> Call({"path"}, {"frame"}, {stub_decode_frame_at}),
     gopost_frame_release |-> Call({"frame"}, {}, {gopost_frame_release}),
     audio_open |-> Call({}, {}, {stub_audio_open}),
     audio_close |-> Call({}, {}, {<<FreeIfThere({"audio path"})>>}),
     audio_decode |-> Call({"audio path"}, {}, {stub_decode_audio_at})]
StubObjects ==
    {AllOrNothing({"path"}), AllOrNothing({"audio path"}), AllOrNothing({"frame", "pool block"})}
=============================================================================
