----------------------------- MODULE AudioMixer -----------------------------
(***************************************************************************)
(* The audio mixer of a timeline (video/audio_mixer.cpp) beside the        *)
(* timeline it mixes.  The mixer keeps its settings in maps of its own, by *)
(* clip id and by the position of a track; an edit of the timeline touches *)
(* none of them.  A missing entry means the default, so the maps are total *)
(* functions here.  Rendering only reads: what is heard at a time is an    *)
(* operator, and decoding, which may fail for any clip, is left out.       *)
(*                                                                         *)
(* Volumes are in units of 1/Unity, a fade's factor in units of 1/FadeUnit.*)
(***************************************************************************)
EXTENDS TimelineModel

CONSTANTS
    Unity,      \* volume 1.0
    FadeUnit,   \* a fade's factor 1.0
    Volumes,    \* volumes the callers ask for
    Pans,       \* pans the callers ask for, in units of a full turn
    Fades       \* fade lengths the callers ask for, in ticks

ASSUME MixerAssumption ==
    /\ Unity \in Nat \ {0} /\ FadeUnit \in Nat \ {0}
    /\ Volumes \subseteq Int /\ Pans \subseteq Int /\ Fades \subseteq Int
    /\ \A n \in Fades : n > 0 => FadeUnit % n = 0   \* factors are exact

VARIABLES
    clip_settings,   \* clip id -> volume, pan and fades
    track_settings,  \* track index -> volume, pan, mute, solo
    early            \* history: ids that were set before a clip had them

mixerVars == <<clip_settings, track_settings, early>>
audioVars == <<vars, mixerVars>>

ClipDefault == [volume |-> Unity, pan |-> 0, fade_in |-> 0, fade_out |-> 0]
TrackDefault == [volume |-> Unity, pan |-> 0, mute |-> FALSE, solo |-> FALSE]

Clamp(x, low, high) == Max({low, Min({x, high})})
Indices == 0 .. MaxTracks - 1

-----------------------------------------------------------------------------
\* The ramps at the two ends of a clip, as long as they were set.
FadeInFactor(c, t) ==
    LET fade == clip_settings[c.id].fade_in
    IN  IF fade > 0 /\ t - c.in_time < fade
        THEN ((t - c.in_time) * FadeUnit) \div fade ELSE FadeUnit

\* Fault: the second ramp is measured from the clip's start as well.
FadeOutFactor_FromStart(c, t) ==
    LET fade == clip_settings[c.id].fade_out
    IN  IF fade > 0 /\ t - c.in_time < fade
        THEN FadeUnit - ((t - c.in_time) * FadeUnit) \div fade ELSE FadeUnit

FadeOutFactor(c, t) ==
    LET fade == clip_settings[c.id].fade_out
    IN  IF fade > 0 /\ c.out_time - t < fade
        THEN ((c.out_time - t) * FadeUnit) \div fade ELSE FadeUnit

\* Fault: only a track that has clips can be the soloed one.
any_solo_WithClips ==
    \E k \in DOMAIN tracks : track_settings[k].solo /\ tracks[k] # {}

any_solo == \E k \in DOMAIN tracks : track_settings[k].solo

IsHeard(k) ==
    /\ ~ track_settings[k].mute
    /\ any_solo => track_settings[k].solo

compute_fade(c, t) ==
    Clamp(FadeInFactor(c, t) * FadeOutFactor(c, t), 0, FadeUnit * FadeUnit)

\* final_vol and combined_pan of a clip on track k.
Gain(k, c, t) ==
    clip_settings[c.id].volume * track_settings[k].volume * compute_fade(c, t)

Pan(k, c) == Clamp(clip_settings[c.id].pan + track_settings[k].pan, -1, 1)

\* render_audio(): what clips add to the output at a time, with the source
\* frame each is decoded at.
Heard(S, t) ==
    UNION {{[source |-> ShownBy(c, t), gain |-> Gain(k, c, t), pan |-> Pan(k, c)] :
                c \in {x \in S \cap tracks[k] : Plays(x, t)}} :
           k \in {l \in DOMAIN tracks : IsHeard(l)}}

-----------------------------------------------------------------------------
AudioInit ==
    /\ Init
    /\ clip_settings = [id \in 1 .. MaxClips |-> ClipDefault]
    /\ track_settings = [k \in Indices |-> TrackDefault]
    /\ early = {}

\* The setters clamp what they are given.  They take any id and any index: a
\* clip or track that was removed keeps its settings and can be given others,
\* and so can one that is still to come.
ChangeClip(id, settings) ==
    /\ clip_settings' = [clip_settings EXCEPT ![id] = settings]
    /\ early' = early \cup ({id} \ Ids)
    /\ UNCHANGED <<vars, track_settings>>

ChangeTrack(k, settings) ==
    /\ track_settings' = [track_settings EXCEPT ![k] = settings]
    /\ UNCHANGED <<vars, clip_settings, early>>

set_clip_volume(id, v) ==
    ChangeClip(id, [clip_settings[id] EXCEPT !.volume = Clamp(v, 0, 2 * Unity)])
set_clip_pan(id, p) ==
    ChangeClip(id, [clip_settings[id] EXCEPT !.pan = Clamp(p, -1, 1)])
set_clip_fade_in(id, n) ==
    ChangeClip(id, [clip_settings[id] EXCEPT !.fade_in = Max({0, n})])
set_clip_fade_out(id, n) ==
    ChangeClip(id, [clip_settings[id] EXCEPT !.fade_out = Max({0, n})])

set_track_volume(k, v) ==
    ChangeTrack(k, [track_settings[k] EXCEPT !.volume = Clamp(v, 0, 2 * Unity)])
set_track_pan(k, p) ==
    ChangeTrack(k, [track_settings[k] EXCEPT !.pan = Clamp(p, -1, 1)])
set_track_mute(k, b) == ChangeTrack(k, [track_settings[k] EXCEPT !.mute = b])
set_track_solo(k, b) == ChangeTrack(k, [track_settings[k] EXCEPT !.solo = b])

SetClip(id) ==
    \/ \E v \in Volumes : set_clip_volume(id, v)
    \/ \E p \in Pans : set_clip_pan(id, p)
    \/ \E n \in Fades : set_clip_fade_in(id, n) \/ set_clip_fade_out(id, n)

SetTrack(k) ==
    \/ \E v \in Volumes : set_track_volume(k, v)
    \/ \E p \in Pans : set_track_pan(k, p)
    \/ \E b \in BOOLEAN : set_track_mute(k, b) \/ set_track_solo(k, b)

\* The edits of the timeline.
Edit == Next /\ UNCHANGED mixerVars

AudioNext ==
    \/ Edit
    \/ \E id \in 1 .. MaxClips : SetClip(id)
    \/ \E k \in Indices : SetTrack(k)

AudioSpec == AudioInit /\ [][AudioNext]_audioVars

-----------------------------------------------------------------------------
\* However long the two fades of a clip are, and however it was trimmed,
\* stretched or cut since they were set, it gets louder and then softer: its
\* gain never dips between two louder times.
FadesDoNotDip ==
    \A k \in DOMAIN tracks : \A c \in tracks[k] :
        \A t, u, v \in {x \in Times : Plays(c, x)} :
            t < u /\ u < v => Gain(k, c, u) >= Min({Gain(k, c, t), Gain(k, c, v)})

\* A clip never starts with what was set for another, though settings outlive
\* their clip: a clip that starts with settings has an id that was set before it
\* was given, as the application may do with the ids of its adjustment layers,
\* which it makes up.
NewClipsSoundPlain ==
    [][\A c \in Clips' : c.id \notin ClipIds \cup early =>
        clip_settings'[c.id] = ClipDefault]_audioVars

\* A clip whose settings a split can cut in two: the left half keeps its id and
\* with it the settings, the right half starts without any.
SplitsCleanly(c, t) ==
    /\ clip_settings[c.id].volume = Unity /\ clip_settings[c.id].pan = 0
    /\ clip_settings[c.id].fade_in <= t - c.in_time
    /\ clip_settings[c.id].fade_out = 0

\* A split is not heard, for a clip without a volume, a pan or a fade-out of its
\* own whose fade-in ends before the cut, if the id it takes was not set before.
SplitSoundsTheSame ==
    [][\A id \in Ids, t \in Times :
        /\ ~ renumbered /\ split_clip(id, t) /\ next_clip_id \notin early
        /\ \A c \in find_clip(id) : SpeedMatches(c) /\ SplitsCleanly(c, t)
        => \A u \in Times : Heard(Clips, u)' = Heard(Clips, u)]_audioVars

\* An edit changes nothing of what is heard of the clips it leaves alone, unless
\* it removes a track, reorders the tracks, or adds a track where a soloed one
\* was removed: settings go by the position of a track.
OthersSoundTheSame ==
    [][~ renumbered /\ UNCHANGED mixerVars =>
        \/ \A same \in {Clips \cap Clips'}, u \in Times : Heard(same, u)' = Heard(same, u)
        \/ \E k \in DOMAIN tracks : remove_track(k)
        \/ \E order \in Orders : reorder_tracks(order)
        \/ add_track /\ track_settings[TrackCount].solo]_audioVars
=============================================================================
