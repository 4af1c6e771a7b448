------------------------------- MODULE Canvas -------------------------------
(***************************************************************************)
(* The canvases of the image engine and their layers                       *)
(* (gopost_image_engine/src/canvas/canvas.cpp).  Every call holds the      *)
(* canvas's mutex from its first look at the layers to its return, and the *)
(* app calls the engine from one isolate: a call is a step.                *)
(*                                                                         *)
(* A canvas is known by its address, which malloc gives again after a      *)
(* destroy.  A layer's pixels are a buffer of the heap.  The viewport, the *)
(* frame callback and the dirty flag, which nothing reads or clears, are   *)
(* left out.                                                               *)
(***************************************************************************)
EXTENDS Integers, FiniteSets, SequencesExt

CONSTANTS
    Addresses,      \* where canvases are allocated
    Buffers,        \* blocks malloc returns for pixels
    Sizes,          \* content sizes of layers, width and height as one value
    CanvasSizes,    \* widths and heights of canvases
    Pictures,       \* what pixels may show
    Colors,         \* fills of solid layers
    Names, Modes, Places,   \* layer attributes
    Opacities,      \* what set_opacity may be given, in tenths
    MaxLayers,      \* bound: layers of a canvas
    NULL

ASSUME OpacityAssumption == Opacities \subseteq Int
ASSUME BoundAssumption == MaxLayers \in Nat
ASSUME BufferAssumption == IsFiniteSet(Buffers)

VARIABLES
    canvases,   \* [Addresses -> canvas or NULL]
    heap,       \* allocated buffers: buffer -> [size, shows]
    births      \* history: canvases made so far at each address

canvasVars == <<canvases, heap, births>>

Shows == Pictures \cup Colors \cup {"clear", "dimmed"}
LayerSizes == Sizes \cup CanvasSizes
Layer == [id : Nat, type : {"image", "solid", "group"},
          name : Names \cup {"Image", "Text", "SolidColor", "Group"},
          opacity : 0 .. 10, mode : Modes \cup {"normal"},
          visible : BOOLEAN, locked : BOOLEAN, place : Places \cup {"origin"},
          size : LayerSizes, px : Buffers \cup {NULL}]
CanvasState == [layers : Seq(Layer), next_layer_id : Nat, size : CanvasSizes]
Pixels == [size : LayerSizes, shows : Shows]

ASSUME NullAssumption == NULL \notin Addresses \cup Buffers \cup Shows \cup CanvasState

Open == {c \in Addresses : canvases[c] # NULL}
LayersOf(c) == canvases[c].layers

\* find_layer(), find_layer_index(): layers have no children, since nothing
\* puts a layer into a group.
IndexOf(c, id) == CHOOSE i \in DOMAIN LayersOf(c) : LayersOf(c)[i].id = id
LayerOf(c, id) == LayersOf(c)[IndexOf(c, id)]
IdsOf(c) == {LayersOf(c)[i].id : i \in DOMAIN LayersOf(c)}

create_layer(id, type, name, size) ==
    [id |-> id, type |-> type, name |-> name, opacity |-> 10, mode |-> "normal",
     visible |-> TRUE, locked |-> FALSE, place |-> "origin",
     size |-> size, px |-> NULL]

\* Where a new layer goes: appended unless index (from 0) is that of a layer.
Placed(layers, index, l) ==
    IF index < 0 \/ index >= Len(layers) THEN Append(layers, l)
    ELSE InsertAt(layers, index + 1, l)

\* malloc() of a pixel buffer; which free block it takes does not matter.
CanAllocate(h) == DOMAIN h # Buffers
NewBuffer(h) == CHOOSE b \in Buffers : b \notin DOMAIN h
Allocated(h, size, shows) ==
    [b \in DOMAIN h \cup {NewBuffer(h)} |->
        IF b = NewBuffer(h) THEN [size |-> size, shows |-> shows] ELSE h[b]]
Freed(h, bs) == [b \in DOMAIN h \ bs |-> h[b]]
PixelsOf(layers) == {layers[i].px : i \in DOMAIN layers} \ {NULL}

NewCanvas(size) == [layers |-> <<>>, next_layer_id |-> 1, size |-> size]

canvas_create(c, size) ==
    /\ canvases[c] = NULL
    /\ canvases' = [canvases EXCEPT ![c] = NewCanvas(size)]
    /\ births' = [births EXCEPT ![c] = @ + 1]
    /\ UNCHANGED heap

canvas_resize(c, size) ==
    /\ canvases' = [canvases EXCEPT ![c].size = size]
    /\ UNCHANGED <<heap, births>>

canvas_destroy(c) ==
    /\ canvases' = [canvases EXCEPT ![c] = NULL]
    /\ heap' = Freed(heap, PixelsOf(LayersOf(c)))
    /\ UNCHANGED births

NoRoom(c) == Len(LayersOf(c)) >= MaxLayers

\* A canvas after a call that gives it a layer with pixels at index.
WithPixelLayer(cv, h, type, name, size, index) ==
    LET l == create_layer(cv.next_layer_id, type, name, size)
    IN  [cv EXCEPT !.layers = Placed(@, index, [l EXCEPT !.px = NewBuffer(h)]),
                   !.next_layer_id = @ + 1]

\* The id is spent before the layer and its pixels are allocated, which may fail.
OutOfMemory(c) ==
    /\ canvases' = [canvases EXCEPT ![c].next_layer_id = @ + 1]
    /\ UNCHANGED <<heap, births>>

AddPixels(c, type, name, size, shows, index) ==
    /\ ~NoRoom(c)
    /\ \/ /\ CanAllocate(heap)
          /\ heap' = Allocated(heap, size, shows)
          /\ canvases' = [canvases EXCEPT ![c] =
                              WithPixelLayer(@, heap, type, name, size, index)]
          /\ UNCHANGED births
       \/ OutOfMemory(c)

add_image_layer(c, size, shows, index) ==
    AddPixels(c, "image", "Image", size, shows, index)

add_solid_layer(c, color, size, index) ==
    AddPixels(c, "solid", "SolidColor", size, color, index)

AddGroup(c, index) ==
    /\ LET l == create_layer(canvases[c].next_layer_id, "group", "Group", canvases[c].size)
       IN  canvases' = [canvases EXCEPT ![c].layers = Placed(@, index, l),
                                        ![c].next_layer_id = @ + 1]
    /\ UNCHANGED <<heap, births>>

add_group_layer(c, index) == ~NoRoom(c) /\ (AddGroup(c, index) \/ OutOfMemory(c))

\* Fault: the id of a removed layer is given again if it was the last.
remove_layer_GivesIdBack(c, id) ==
    /\ heap' = Freed(heap, {LayerOf(c, id).px} \ {NULL})
    /\ canvases' = [canvases EXCEPT ![c].layers = RemoveAt(@, IndexOf(c, id)),
                                    ![c].next_layer_id = IF id + 1 = @ THEN id ELSE @]
    /\ UNCHANGED births

remove_layer(c, id) ==
    /\ heap' = Freed(heap, {LayerOf(c, id).px} \ {NULL})
    /\ canvases' = [canvases EXCEPT ![c].layers = RemoveAt(@, IndexOf(c, id))]
    /\ UNCHANGED births

\* std::clamp(new_index, 0, size - 1), then erase and insert.
Clamped(i, lo, hi) == IF i < lo THEN lo ELSE IF i > hi THEN hi ELSE i

reorder_layer(c, id, new_index) ==
    /\ LET at == Clamped(new_index, 0, Len(LayersOf(c)) - 1)
           others == RemoveAt(LayersOf(c), IndexOf(c, id))
       IN  canvases' = [canvases EXCEPT ![c].layers =
                            InsertAt(others, at + 1, LayerOf(c, id))]
    /\ UNCHANGED <<heap, births>>

\* The copy of a layer's pixels is a buffer of its own; if malloc fails the
\* copy has its size and no pixels.
deep_copy_layer(c, id) ==
    LET l == [LayerOf(c, id) EXCEPT !.id = canvases[c].next_layer_id]
    IN  \/ /\ l.px # NULL
           /\ CanAllocate(heap)
           /\ heap' = Allocated(heap, heap[l.px].size, heap[l.px].shows)
           /\ canvases' = [canvases EXCEPT
                  ![c].layers = InsertAt(@, IndexOf(c, id) + 1,
                                         [l EXCEPT !.px = NewBuffer(heap)]),
                  ![c].next_layer_id = @ + 1]
        \/ /\ heap' = heap
           /\ canvases' = [canvases EXCEPT
                  ![c].layers = InsertAt(@, IndexOf(c, id) + 1, [l EXCEPT !.px = NULL]),
                  ![c].next_layer_id = @ + 1]

duplicate_layer(c, id) ==
    /\ ~NoRoom(c)
    /\ \/ deep_copy_layer(c, id) /\ UNCHANGED births
       \/ OutOfMemory(c)

\* The setters find the layer and change one attribute: it becomes l.
SetOf(c, id, l) ==
    /\ canvases' = [canvases EXCEPT ![c].layers[IndexOf(c, id)] = l]
    /\ UNCHANGED <<heap, births>>

set_visible(c, id, v) == SetOf(c, id, [LayerOf(c, id) EXCEPT !.visible = v])
set_locked(c, id, v) == SetOf(c, id, [LayerOf(c, id) EXCEPT !.locked = v])

set_opacity(c, id, o) ==
    SetOf(c, id, [LayerOf(c, id) EXCEPT !.opacity = Clamped(o, 0, 10)])
set_blend_mode(c, id, m) == SetOf(c, id, [LayerOf(c, id) EXCEPT !.mode = m])
set_name(c, id, n) == SetOf(c, id, [LayerOf(c, id) EXCEPT !.name = n])
set_transform(c, id, p) == SetOf(c, id, [LayerOf(c, id) EXCEPT !.place = p])

\* Fault: the old pixels are not freed.
update_layer_pixels_Leaks(c, id, size, shows) ==
    /\ CanAllocate(heap)
    /\ heap' = Allocated(heap, size, shows)
    /\ canvases' = [canvases EXCEPT ![c].layers[IndexOf(c, id)] =
                        [@ EXCEPT !.px = NewBuffer(heap), !.size = size]]
    /\ UNCHANGED births

\* Fault: the layer keeps its size.
update_layer_pixels_OldSize(c, id, size, shows) ==
    /\ CanAllocate(heap)
    /\ heap' = Freed(Allocated(heap, size, shows), {LayerOf(c, id).px} \ {NULL})
    /\ canvases' = [canvases EXCEPT ![c].layers[IndexOf(c, id)].px = NewBuffer(heap)]
    /\ UNCHANGED births

update_layer_pixels(c, id, size, shows) ==
    /\ CanAllocate(heap)
    /\ heap' = Freed(Allocated(heap, size, shows), {LayerOf(c, id).px} \ {NULL})
    /\ canvases' = [canvases EXCEPT ![c].layers[IndexOf(c, id)] =
                        [@ EXCEPT !.px = NewBuffer(heap), !.size = size]]
    /\ UNCHANGED births

CanvasInit ==
    /\ canvases = [c \in Addresses |-> NULL]
    /\ heap = << >>
    /\ births = [c \in Addresses |-> 0]

LayerCall(c, id) ==
    \/ remove_layer(c, id)
    \/ duplicate_layer(c, id)
    \/ \E i \in -1 .. MaxLayers : reorder_layer(c, id, i)
    \/ \E v \in BOOLEAN : set_visible(c, id, v) \/ set_locked(c, id, v)
    \/ \E o \in Opacities : set_opacity(c, id, o)
    \/ \E m \in Modes : set_blend_mode(c, id, m)
    \/ \E n \in Names : set_name(c, id, n)
    \/ \E p \in Places : set_transform(c, id, p)

CanvasCall(c) ==
    \/ canvas_destroy(c)
    \/ \E s \in CanvasSizes : canvas_resize(c, s)
    \/ \E i \in -1 .. MaxLayers - 1 :
          \/ \E s \in Sizes, p \in Pictures : add_image_layer(c, s, p, i)
          \/ \E s \in Sizes, k \in Colors : add_solid_layer(c, k, s, i)
          \/ add_group_layer(c, i)
    \/ \E id \in IdsOf(c) : LayerCall(c, id)

-----------------------------------------------------------------------------
\* Every buffer of the heap is the pixels of one layer of one canvas: nothing
\* leaks, and no two layers share pixels, whatever is added, duplicated,
\* replaced and removed (canvas.cpp destroy_layer, deep_copy_layer,
\* update_layer_pixels).
AllLayers == UNION {{<<c, i>> : i \in DOMAIN LayersOf(c)} : c \in Open}
PixelsHaveOneOwner ==
    /\ DOMAIN heap = UNION {PixelsOf(LayersOf(c)) : c \in Open}
    /\ \A a, b \in AllLayers :
          LET p == LayersOf(a[1])[a[2]].px
          IN  p # NULL /\ p = LayersOf(b[1])[b[2]].px => a = b

\* The compositor reads content_w x content_h pixels from a layer's buffer and
\* never looks at its length (compositor.cpp:142): the two must agree.
ContentFitsBuffer ==
    \A c \in Open : \A i \in DOMAIN LayersOf(c) :
        LET l == LayersOf(c)[i]
        IN  l.px # NULL => l.px \in DOMAIN heap /\ heap[l.px].size = l.size

=============================================================================
