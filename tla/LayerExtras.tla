---------------------------- MODULE LayerExtras ----------------------------
(***************************************************************************)
(* What the image engine keeps beside the canvas: masks                    *)
(* (mask/mask_system.cpp), effects of layers (effects/layer_effects.cpp),  *)
(* the registry of effects (effects/effect_registry.cpp), and text layers  *)
(* (text/text_renderer.cpp), which are image layers with rendered text.    *)
(*                                                                         *)
(* Masks and effects are in global maps keyed by the address of a canvas   *)
(* and the id of a layer; neither removing the layer nor destroying the    *)
(* canvas takes them out.                                                  *)
(***************************************************************************)
EXTENDS Canvas

CONSTANT Effects    \* ids of the built-in effects; each has one parameter

VARIABLES
    masks,          \* <<canvas, id>> -> [enabled, len, size, shows]
    effects,        \* <<canvas, id>> -> sequence of instances
    next_instance_id,
    registry,       \* the registered effects, in order
    initialized     \* registry's flag

extraVars == <<masks, effects, next_instance_id, registry, initialized>>
regVars == <<registry, initialized>>
effectVars == <<effects, next_instance_id>>

Without(f, k) == [x \in DOMAIN f \ {k} |-> f[x]]
With(f, k, v) == [x \in DOMAIN f \cup {k} |-> IF x = k THEN v ELSE f[x]]

-----------------------------------------------------------------------------
\* Masks.  A mask's bytes are as many as len and show "white" (all visible),
\* "black" (all hidden) or "grey" (anything else).

NewMask(size) == [enabled |-> TRUE, len |-> size, size |-> size, shows |-> "white"]

MasksOnly == UNCHANGED <<canvasVars, effectVars, regVars>>

add_mask(c, id) ==
    /\ <<c, id>> \notin DOMAIN masks
    /\ masks' = With(masks, <<c, id>>, NewMask(LayerOf(c, id).size))
    /\ MasksOnly

remove_mask(c, id) ==
    /\ masks' = Without(masks, <<c, id>>)
    /\ MasksOnly

Inverse255 == [white |-> "black", black |-> "white", grey |-> "grey"]

invert_mask(c, id) ==
    /\ masks' = [masks EXCEPT ![<<c, id>>].shows = Inverse255[@]]
    /\ MasksOnly

set_mask_enabled(c, id, e) ==
    /\ masks' = [masks EXCEPT ![<<c, id>>].enabled = e]
    /\ MasksOnly

set_mask_data(c, id, size, shows) ==
    /\ masks' = [masks EXCEPT ![<<c, id>>] =
                     [@ EXCEPT !.len = size, !.size = size, !.shows = shows]]
    /\ MasksOnly

mask_fill(c, id, shows) ==
    /\ masks' = [masks EXCEPT ![<<c, id>>].shows = shows]
    /\ MasksOnly

\* A stroke may miss the mask, cover some of it or all of it.
mask_paint(c, id, target) ==
    /\ \E shows \in {masks[<<c, id>>].shows, "grey", target} :
          masks' = [masks EXCEPT ![<<c, id>>].shows = shows]
    /\ MasksOnly

\* Pixels under a mask: unchanged, transparent, or dimmed.
Masked(shows, m) == CASE m = "white" -> shows
                      [] m = "black" -> "clear"
                      [] m = "grey"  -> IF shows = "clear" THEN "clear" ELSE "dimmed"

CanApply(c, id) ==
    LET m == masks[<<c, id>>]  l == LayerOf(c, id)
    IN  m.enabled /\ l.px # NULL /\ m.size = l.size

apply_mask(c, id) ==
    /\ CanApply(c, id)
    /\ LET l == LayerOf(c, id)
       IN  update_layer_pixels(c, id, l.size,
                               Masked(heap[l.px].shows, masks[<<c, id>>].shows))
    /\ UNCHANGED extraVars

MaskCall(c, id) ==
    \/ remove_mask(c, id)
    \/ invert_mask(c, id)
    \/ \E e \in BOOLEAN : set_mask_enabled(c, id, e)
    \/ \E s \in Sizes, w \in {"white", "black", "grey"} : set_mask_data(c, id, s, w)
    \/ \E w \in {"white", "black"} : mask_fill(c, id, w) \/ mask_paint(c, id, w)

-----------------------------------------------------------------------------
\* Effects.  A layer's value of the parameter is "default" or "set".

effects_init ==
    /\ ~initialized
    /\ registry' = registry \o SetToSeq(Effects)
    /\ initialized' = TRUE
    /\ UNCHANGED <<canvasVars, effectVars, masks>>

effects_shutdown ==
    /\ registry' = <<>>
    /\ initialized' = FALSE
    /\ UNCHANGED <<canvasVars, effectVars, masks>>

effects_find(e) == \E i \in DOMAIN registry : registry[i] = e

EffectsOf(k) == IF k \in DOMAIN effects THEN effects[k] ELSE <<>>
InstancesOf(k) == {EffectsOf(k)[i].id : i \in DOMAIN EffectsOf(k)}
InstanceAt(k, n) == CHOOSE i \in DOMAIN EffectsOf(k) : EffectsOf(k)[i].id = n
EffectsOnly == UNCHANGED <<canvasVars, regVars, masks>>

\* Fault: ids are counted per layer.
add_effect_PerLayer(c, id, e) ==
    /\ effects_find(e)
    /\ LET n == Len(EffectsOf(<<c, id>>)) + 1
           inst == [id |-> n, effect |-> e, enabled |-> TRUE, mix |-> 10,
                    param |-> "default"]
       IN  /\ effects' = With(effects, <<c, id>>, Append(EffectsOf(<<c, id>>), inst))
           /\ next_instance_id' = n + 1
    /\ EffectsOnly

add_effect(c, id, e) ==
    /\ effects_find(e)
    /\ LET inst == [id |-> next_instance_id, effect |-> e, enabled |-> TRUE,
                    mix |-> 10, param |-> "default"]
       IN  effects' = With(effects, <<c, id>>, Append(EffectsOf(<<c, id>>), inst))
    /\ next_instance_id' = next_instance_id + 1
    /\ EffectsOnly

remove_effect(k, n) ==
    /\ LET rest == RemoveAt(EffectsOf(k), InstanceAt(k, n))
       IN  effects' = IF rest = <<>> THEN Without(effects, k)
                      ELSE With(effects, k, rest)
    /\ UNCHANGED next_instance_id
    /\ EffectsOnly

Instance(k, n) == EffectsOf(k)[InstanceAt(k, n)]
SetInstance(k, n, inst) ==
    /\ effects' = [effects EXCEPT ![k][InstanceAt(k, n)] = inst]
    /\ UNCHANGED next_instance_id
    /\ EffectsOnly

effect_set_enabled(k, n, e) == SetInstance(k, n, [Instance(k, n) EXCEPT !.enabled = e])
effect_set_mix(k, n, x) == SetInstance(k, n, [Instance(k, n) EXCEPT !.mix = x])

effect_set_param(k, n) ==
    /\ effects_find(Instance(k, n).effect)
    /\ SetInstance(k, n, [Instance(k, n) EXCEPT !.param = "set"])

EffectCall(k, n) ==
    \/ remove_effect(k, n)
    \/ \E e \in BOOLEAN : effect_set_enabled(k, n, e)
    \/ \E x \in Opacities : effect_set_mix(k, n, x)
    \/ effect_set_param(k, n)

-----------------------------------------------------------------------------
\* Text layers.  Rasterized text is a picture with a size of its own.

\* The name is set by a second call once the layer is there.
add_text_layer(c, size, shows, index) ==
    /\ ~NoRoom(c)
    /\ \/ /\ CanAllocate(heap)
          /\ heap' = Allocated(heap, size, shows)
          /\ canvases' = [canvases EXCEPT ![c] =
                              WithPixelLayer(@, heap, "image", "Text", size, index)]
          /\ UNCHANGED births
       \/ OutOfMemory(c)
    /\ UNCHANGED extraVars

\* Any layer takes the text, whatever its type; its name stays.
update_text_layer(c, id, size, shows) ==
    /\ update_layer_pixels(c, id, size, shows)
    /\ UNCHANGED extraVars

-----------------------------------------------------------------------------
ExtrasInit ==
    /\ masks = << >>
    /\ effects = << >>
    /\ next_instance_id = 1
    /\ registry = <<>>
    /\ initialized = FALSE

ExtrasCall ==
    \/ effects_init
    \/ effects_shutdown
    \/ \E c \in Open : \E id \in IdsOf(c) :
          \/ add_mask(c, id)
          \/ \E e \in Effects : add_effect(c, id, e)
          \/ \E s \in Sizes, p \in Pictures : update_text_layer(c, id, s, p)
          \/ <<c, id>> \in DOMAIN masks /\ apply_mask(c, id)
    \/ \E c \in Open, i \in -1 .. MaxLayers - 1, s \in Sizes, p \in Pictures :
          add_text_layer(c, s, p, i)
    \/ \E k \in DOMAIN masks : k[1] \in Open /\ MaskCall(k[1], k[2])
    \/ \E k \in DOMAIN effects :
          k[1] \in Open /\ \E n \in InstancesOf(k) : EffectCall(k, n)
=============================================================================
