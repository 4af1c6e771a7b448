---------------------------- MODULE ImageProject ----------------------------
(***************************************************************************)
(* The image engine whole: canvases, what is kept beside them, and project *)
(* files (project/project_serializer.cpp), with what the compositor would  *)
(* paint of a canvas (composition/compositor.cpp) as the measure of what a *)
(* file preserves.                                                         *)
(*                                                                         *)
(* A file is the canvas's size and an entry per layer.  A write cut short  *)
(* leaves some of the entries: the header's layer count is then too large, *)
(* and the loader stops at the end of the data.  One cut inside the header *)
(* is refused by the loader, and is here no file.                          *)
(***************************************************************************)
EXTENDS LayerExtras, Sublists

CONSTANTS
    White,      \* the color solid layers are loaded with
    MaxCalls    \* bound: calls of the engine

ASSUME WhiteAssumption == White \in Colors

VARIABLES
    disk,   \* the project file: NULL for none, or [size, entries, whole, saved], where
            \* saved is history: what the canvas painted when it was saved
    calls   \* calls of the engine so far

vars == <<canvasVars, extraVars, disk, calls>>

\* What gopost_canvas_render() paints: visible layers with pixels, from the
\* bottom up, each with its pixels, size, place, opacity and mode.
Paints(l) == l.visible /\ l.opacity > 0 /\ l.px # NULL
Stroke(l) == [solid |-> l.type = "solid", shows |-> heap[l.px].shows, size |-> l.size,
              place |-> l.place, opacity |-> l.opacity, mode |-> l.mode]
Painting(layers) ==
    LET visible == Select(layers, {i \in DOMAIN layers : Paints(layers[i])})
    IN  [i \in DOMAIN visible |-> Stroke(visible[i])]

\* gopost_project_save(): every layer, those without pixels too.
Entry(l) == [layer |-> l, shows |-> IF l.px = NULL THEN NULL ELSE heap[l.px].shows]
Saved(c) == [size |-> canvases[c].size,
             entries |-> [i \in DOMAIN LayersOf(c) |-> Entry(LayersOf(c)[i])],
             whole |-> TRUE,
             saved |-> Painting(LayersOf(c))]

\* fwrite() may write less than all of it: the file is then a prefix, the old one
\* is gone, and the call reports an I/O error.
save_to_file(c) ==
    /\ LET file == Saved(c)
       IN  \/ disk' = file
           \/ disk' = NULL
           \/ \E n \in 0 .. Len(file.entries) :
                 disk' = [file EXCEPT !.entries = SubSeq(@, 1, n), !.whole = FALSE]
    /\ UNCHANGED <<canvasVars, extraVars>>

\* A solid layer is made anew, in white; others get the pixels of the file.
LoadedShows(e) == IF e.layer.type = "solid" THEN White ELSE e.shows
LoadedType(e) == IF e.layer.type = "solid" THEN "solid" ELSE "image"

\* The entries that become layers.
HavePixels == {i \in DOMAIN disk.entries : disk.entries[i].shows # NULL}

\* Ids are given in the order of the file; a failing malloc spends one too.
LoadedId(i) == Rank(HavePixels, i)

\* Fault: the flag is not restored: layers come back visible.
LoadedLayer_AllVisible(e, id, b) ==
    [e.layer EXCEPT !.id = id, !.type = LoadedType(e), !.visible = TRUE, !.px = b]

\* The layer made of an entry, with b as its pixels.
LoadedLayer(e, id, b) ==
    [create_layer(id, LoadedType(e), e.layer.name, e.layer.size) EXCEPT
        !.opacity = e.layer.opacity, !.mode = e.layer.mode,
        !.visible = e.layer.visible, !.locked = e.layer.locked,
        !.place = e.layer.place, !.px = b]

\* A failing malloc leaves out its layer and goes on.
project_load(c, failed) ==
    LET loaded == HavePixels \ failed
        buffer == CHOOSE f \in Injection(loaded, Buffers \ DOMAIN heap) : TRUE
        layer(i) == LoadedLayer(disk.entries[i], LoadedId(i), buffer[i])
        pixels(i) == [size |-> disk.entries[i].layer.size,
                      shows |-> LoadedShows(disk.entries[i])]
        entryOf(b) == CHOOSE i \in loaded : buffer[i] = b
    IN  /\ canvases' = [canvases EXCEPT ![c] =
               [layers |-> [n \in 1 .. Cardinality(loaded) |-> layer(Nth(loaded, n))],
                next_layer_id |-> Cardinality(HavePixels) + 1,
                size |-> disk.size]]
        /\ heap' = [b \in DOMAIN heap \cup {buffer[i] : i \in loaded} |->
                       IF b \in DOMAIN heap THEN heap[b] ELSE pixels(entryOf(b))]

\* The mallocs that fail: at least as many as there are too few buffers.
MayFail == {f \in SUBSET HavePixels :
               Cardinality(HavePixels \ f) <= Cardinality(Buffers \ DOMAIN heap)}

load_from_file(c, failed) ==
    /\ disk # NULL
    /\ canvases[c] = NULL
    /\ failed \in MayFail
    /\ project_load(c, failed)
    /\ births' = [births EXCEPT ![c] = @ + 1]
    /\ UNCHANGED <<extraVars, disk>>

-----------------------------------------------------------------------------
Init == CanvasInit /\ ExtrasInit /\ disk = NULL /\ calls = 0

Counted == calls < MaxCalls /\ calls' = calls + 1

Next ==
    \/ /\ \E c \in Addresses, s \in CanvasSizes : canvas_create(c, s)
       /\ Counted /\ UNCHANGED <<extraVars, disk>>
    \/ /\ \E c \in Open : CanvasCall(c)
       /\ Counted /\ UNCHANGED <<extraVars, disk>>
    \/ ExtrasCall /\ Counted /\ UNCHANGED disk
    \/ \E c \in Open : save_to_file(c) /\ Counted
    \/ \E c \in Addresses, failed \in SUBSET (1 .. MaxLayers) :
          load_from_file(c, failed) /\ Counted

Spec == Init /\ [][Next]_vars

-----------------------------------------------------------------------------
\* A layer that appears in a canvas at an address no canvas had before has no
\* mask and no effects, although those of removed layers stay in the maps: ids
\* are never given twice.  (A canvas at a used address finds the old ones.)
NewLayersStartClean ==
    [][\A c \in Addresses :
          canvases'[c] # NULL /\ births'[c] = 1 =>
              \A id \in IdsOf(c)' \ (IF canvases[c] = NULL THEN {} ELSE IdsOf(c)) :
                  <<c, id>> \notin DOMAIN masks' \cup DOMAIN effects']_vars

\* Calls that name an effect instance act on one: its id is on one layer, once,
\* and lists are never left empty (layer_effects.cpp remove_effect).
InstancesAreUnique ==
    \A k \in DOMAIN effects :
        /\ effects[k] # <<>>
        /\ \A i \in DOMAIN effects[k] :
              /\ effects[k][i].id < next_instance_id
              /\ \A h \in DOMAIN effects : \A j \in DOMAIN effects[h] :
                    effects[h][j].id = effects[k][i].id => h = k /\ j = i

\* The strokes agree, but for the color of a solid layer.
Agrees(got, saved) ==
    \/ got = saved
    \/ saved.solid /\ got = [saved EXCEPT !.shows = got.shows]

\* A project file that loads without a failing malloc paints, layer by layer, what
\* the canvas painted when it was saved: all of it if the file was written whole,
\* the first of it if it was cut short.  Nothing is said of the colors of solid
\* layers.
LoadPaintsWhatWasSaved ==
    [][\A c \in Addresses :
          load_from_file(c, {}) =>
              LET got == Painting(LayersOf(c))'
              IN  /\ Len(got) <= Len(disk.saved)
                  /\ \A n \in DOMAIN got : Agrees(got[n], disk.saved[n])
                  /\ disk.whole => Len(got) = Len(disk.saved)]_vars

\* "Deserialize .gpimg buffer and reconstruct canvas": a whole file paints what
\* was saved, colors too.
LoadReconstructsCanvas ==
    [][\A c \in Addresses :
          load_from_file(c, {}) /\ disk.whole =>
              Painting(LayersOf(c))' = disk.saved]_vars
=============================================================================
