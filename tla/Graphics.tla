------------------------------ MODULE Graphics ------------------------------
(* d3d11.hpp: a device, its immediate context, swap chains, textures and a    *)
(* composition of layers, used by one thread.  Every call into Direct3D may   *)
(* fail, and the wrappers return early when one does.  What Direct3D keeps is *)
(* reduced to which object a slot or a view names: buffers and textures have  *)
(* a number instead of contents, and a view is the number it was made for.    *)
EXTENDS Integers, Sequences, SequencesExt

CONSTANTS Chain, Texture, Layer,  \* the objects a program may make
          Sizes,                  \* the sizes it asks for, <<width, height>>
          MaxObjects,             \* bound on the buffers, images and layers made
          MaxLayers,              \* bound on the length of the composition
          None                    \* no object

ASSUME GraphicsAssumption ==
  /\ Sizes \subseteq Nat \X Nat
  /\ MaxObjects \in Nat /\ MaxLayers \in Nat
  /\ None \notin Chain \cup Texture \cup Layer

VARIABLES
  device,       \* device::make has succeeded
  (* per swap chain: *)
  size,         \* width_ and height_, <<0, 0>> before it is made
  rtv,          \* rtv_: the number of the buffer it views, 0 when null
  bound,        \* ctx_ is set
  first_frame,  \* first_frame_
  buffers,      \* DXGI: the number of its buffers, 0 before it is made
  extent,       \* DXGI: their size
  (* the immediate context: *)
  target,       \* the render target, <<chain, number>>
  viewport,     \* the viewport and the chain that set it, <<chain, size>>
  pipeline,     \* whose quad and effect are set, and the view that is sampled
  (* textures and layers: *)
  tex, srv,     \* per texture, tex_ and the image that srv_ views, 0 when null
  layer,        \* per layer, what it was made from
  layers,       \* composition::layers_
  loop,         \* the layers a loop of the composition has still to visit
  crashed,      \* the chain or layer whose call dereferenced a null pointer
  objects,      \* how many buffers, images and layers were made
  (* histories: *)
  wanted,       \* per swap chain, the size of the last resize()
  refused,      \* chains whose last ResizeBuffers failed
  lost,         \* chains whose last GetBuffer failed
  stale         \* textures that have no view, or whose view was left behind

chainVars == <<size, rtv, bound, first_frame, buffers, extent, wanted, refused, lost>>
textureVars == <<tex, srv, stale>>
layerVars == <<layer, layers, loop, crashed>>
vars == <<device, objects, chainVars, target, viewport, pipeline, textureVars, layerVars>>

NoSize == <<0, 0>>
NoTarget == <<None, 0>>

Init == /\ device = FALSE /\ objects = 0
        /\ size = [c \in Chain |-> NoSize] /\ extent = size /\ wanted = size
        /\ rtv = [c \in Chain |-> 0] /\ buffers = rtv
        /\ bound = [c \in Chain |-> FALSE] /\ first_frame = [c \in Chain |-> TRUE]
        /\ refused = {} /\ lost = {}
        /\ target = NoTarget /\ viewport = <<None, NoSize>>
        /\ pipeline = [quad |-> None, effect |-> None, view |-> 0]
        /\ tex = [t \in Texture |-> 0] /\ srv = tex /\ stale = {}
        /\ layer = [l \in Layer |-> None] /\ layers = << >> /\ loop = << >>
        /\ crashed = None

\* the thread is between two calls
Idle == device /\ loop = << >> /\ crashed = None

\* one more buffer, image or layer
Creates == objects < MaxObjects /\ objects' = objects + 1

\* a device and its immediate context; a failure leaves nothing
MakeDevice == /\ ~device /\ device' = TRUE
              /\ UNCHANGED <<objects, chainVars, target, viewport, pipeline, textureVars, layerVars>>

-----------------------------------------------------------------------------
(* Swap chains. *)

Made(c) == buffers[c] > 0

HasArea(s) == s[1] > 0 /\ s[2] > 0

\* DXGI takes a dimension that is zero from the window, CreateSwapChainForComposition
\* refuses it and the maker goes on to CreateSwapChainForHwnd
BuffersFor(s, window) == <<IF s[1] = 0 THEN window[1] ELSE s[1],
                           IF s[2] = 0 THEN window[2] ELSE s[2]>>

\* what a maker does once nothing can fail any more: the new chain's first
\* buffer becomes the render target
ChainMade(c, s) ==
  /\ Idle /\ ~Made(c) /\ Creates
  /\ \E window \in {w \in Sizes : HasArea(w)} :
       extent' = [extent EXCEPT ![c] = BuffersFor(s, window)]
  /\ size' = [size EXCEPT ![c] = s] /\ wanted' = [wanted EXCEPT ![c] = s]
  /\ buffers' = [buffers EXCEPT ![c] = 1] /\ rtv' = [rtv EXCEPT ![c] = 1]
  /\ target' = <<c, 1>> /\ viewport' = <<c, s>>
  /\ UNCHANGED <<device, bound, first_frame, refused, lost, pipeline,
                 textureVars, layerVars>>

\* The failures come before the first change of the context, and return nullptr
\* or throw: nothing changes then.
MakeSwapchain(c) == \E s \in Sizes : ChainMade(c, s)

\* the same, from CreateSwapChainForComposition or, if that fails, for the window
MakeSwapchainForComposition(c) == \E s \in Sizes : ChainMade(c, s)

\* swapchain::bind sets the render target, but not the viewport
Bind(c) == /\ Idle /\ Made(c)
           /\ bound' = [bound EXCEPT ![c] = TRUE]
           /\ target' = IF rtv[c] = 0 THEN NoTarget ELSE <<c, rtv[c]>>
           /\ UNCHANGED <<device, objects, size, rtv, first_frame, buffers, extent, wanted,
                          refused, lost, viewport, pipeline,
                          textureVars, layerVars>>

Unbind(c) == /\ Idle /\ bound[c] /\ bound' = [bound EXCEPT ![c] = FALSE]
             /\ UNCHANGED <<device, objects, size, rtv, first_frame, buffers, extent, wanted,
                            refused, lost, target, viewport, pipeline,
                            textureVars, layerVars>>

\* the early return of resize
Ignored(c, s) == ~HasArea(s) \/ s[1] = size[c][1] \/ s[2] = size[c][2]

ResizeIgnored(c, s) ==
  /\ Idle /\ Made(c) /\ Ignored(c, s)
  /\ wanted' = [wanted EXCEPT ![c] = s]
  /\ UNCHANGED <<device, objects, size, rtv, bound, first_frame, buffers, extent, refused,
                 lost, target, viewport, pipeline, textureVars, layerVars>>

\* the size is kept before anything that can fail
Resizes(c, s) == /\ Idle /\ Made(c) /\ ~Ignored(c, s)
                 /\ wanted' = [wanted EXCEPT ![c] = s]
                 /\ size' = [size EXCEPT ![c] = s]
                 /\ UNCHANGED <<device, bound, first_frame, pipeline,
                                textureVars, layer, layers, loop>>

\* a chain that was never bound, or was unbound, has no context
ResizeUnbound(c, s) == /\ Resizes(c, s) /\ ~bound[c] /\ crashed' = c
                       /\ UNCHANGED <<objects, rtv, buffers, extent, refused, lost, target,
                                      viewport>>

\* ResizeBuffers fails
ResizeRefused(c, s) == /\ Resizes(c, s) /\ bound[c]
                       /\ refused' = refused \cup {c} /\ target' = NoTarget
                       /\ UNCHANGED <<objects, rtv, buffers, extent, lost, viewport, crashed>>

\* (mutant) ResizeBuffers is given the members before they are assigned
BuffersOfOldSize(c, s) == /\ Resizes(c, s) /\ bound[c] /\ Creates
                          /\ buffers' = [buffers EXCEPT ![c] = @ + 1]
                          /\ extent' = [extent EXCEPT ![c] = size[c]]
                          /\ refused' = refused \ {c}
                          /\ UNCHANGED crashed

\* ResizeBuffers succeeds
BuffersResized(c, s) == /\ Resizes(c, s) /\ bound[c] /\ Creates
                        /\ buffers' = [buffers EXCEPT ![c] = @ + 1]
                        /\ extent' = [extent EXCEPT ![c] = s]
                        /\ refused' = refused \ {c}
                        /\ UNCHANGED crashed

\* GetBuffer fails: rtv_ keeps its view of the buffers that were replaced
BufferLost(c, s) == /\ BuffersResized(c, s)
                    /\ lost' = lost \cup {c} /\ target' = NoTarget
                    /\ UNCHANGED <<rtv, viewport>>

\* CreateRenderTargetView fails: rtv_ has been released, the viewport is set
ViewLost(c, s) == /\ BuffersResized(c, s)
                  /\ rtv' = [rtv EXCEPT ![c] = 0] /\ lost' = lost \ {c}
                  /\ target' = NoTarget /\ viewport' = <<c, s>>

\* (mutant) the old view is set again
TargetFirst(c, s) == /\ BuffersResized(c, s)
                     /\ rtv' = [rtv EXCEPT ![c] = buffers'[c]] /\ lost' = lost \ {c}
                     /\ target' = <<c, rtv[c]>> /\ viewport' = <<c, s>>

ResizeDone(c, s) == /\ BuffersResized(c, s)
                    /\ rtv' = [rtv EXCEPT ![c] = buffers'[c]] /\ lost' = lost \ {c}
                    /\ target' = <<c, buffers'[c]>> /\ viewport' = <<c, s>>

Resize(c, s) == \/ ResizeIgnored(c, s) \/ ResizeUnbound(c, s) \/ ResizeRefused(c, s)
                \/ BufferLost(c, s) \/ ViewLost(c, s) \/ ResizeDone(c, s)

\* DXGI takes the buffers of a chain that flips them out of the context
Presents(c) == /\ Idle /\ Made(c)
               /\ target' \in {target} \cup {NoTarget : x \in {c} \cap {target[1]}}

\* present(sync_interval): everything
Present(c) == /\ Presents(c)
              /\ UNCHANGED <<device, objects, size, rtv, bound, first_frame, buffers, extent,
                             wanted, refused, lost, viewport, pipeline,
                             textureVars, layerVars>>

\* present with dirty rectangles, of which the first takes everything
PresentDirty(c) == /\ Presents(c) /\ first_frame' = [first_frame EXCEPT ![c] = FALSE]
                   /\ UNCHANGED <<device, objects, size, rtv, bound, buffers, extent, wanted,
                                  refused, lost, viewport, pipeline, textureVars,
                                  layerVars>>

-----------------------------------------------------------------------------
(* Textures.  An image is one ID3D11Texture2D. *)

Textures == {t \in Texture : tex[t] # 0 \/ srv[t] # 0 \/ t \in stale}

contextVars == <<target, viewport, pipeline>>

\* make_texture2d: an image and its view, or nullptr
MakeTexture2d(t) ==
  /\ Idle /\ t \notin Textures /\ Creates
  /\ tex' = [tex EXCEPT ![t] = objects'] /\ srv' = [srv EXCEPT ![t] = objects']
  /\ UNCHANGED <<device, chainVars, contextVars, stale, layerVars>>

\* open_shared_texture2d: without D3D11_BIND_SHADER_RESOURCE there is no view
OpenSharedTexture2d(t) ==
  /\ Idle /\ t \notin Textures /\ Creates
  /\ tex' = [tex EXCEPT ![t] = objects']
  /\ \/ srv' = [srv EXCEPT ![t] = objects'] /\ UNCHANGED stale
     \/ stale' = stale \cup {t} /\ UNCHANGED srv
  /\ UNCHANGED <<device, chainVars, contextVars, layerVars>>

\* texture2d::reset takes over the image of another texture, and not its view
Reset(t, other) ==
  /\ Idle /\ {t, other} \subseteq Textures
  /\ tex' = [tex EXCEPT ![t] = tex[other]]
  /\ stale' = IF tex'[t] = srv[t] THEN stale ELSE stale \cup {t}
  /\ UNCHANGED <<device, chainVars, contextVars, srv, objects, layerVars>>

\* texture2d::resize succeeds: a new image and a view of it
TextureResized(t) == /\ Creates
                     /\ tex' = [tex EXCEPT ![t] = objects']
                     /\ srv' = [srv EXCEPT ![t] = objects']
                     /\ stale' = stale \ {t}

\* CreateTexture2D fails: tex_ has been released, srv_ still views the old image
ImageLost(t) == /\ tex' = [tex EXCEPT ![t] = 0] /\ stale' = stale \cup {t}
                /\ UNCHANGED <<srv, objects>>

\* CreateShaderResourceView fails, and leaves srv_ alone or null
TextureViewLost(t) == /\ Creates
                      /\ tex' = [tex EXCEPT ![t] = objects']
                      /\ srv' \in {srv, [srv EXCEPT ![t] = 0]}
                      /\ stale' = stale \cup {t}

\* texture2d::resize, once tex_ has given its description
TextureResize(t) == TextureResized(t) \/ ImageLost(t) \/ TextureViewLost(t)

-----------------------------------------------------------------------------
(* Layers and their composition. *)

\* create_quad: a geometry, or nullptr
CreateQuad == BOOLEAN

CompileShader == {"blob", "nullptr"}

\* create_effect: an effect even when a shader could not be compiled
CreateEffect == {IF {v, p} = {"blob"} THEN "complete" ELSE "blank" : v, p \in CompileShader}

MakeLayer(l) ==
  /\ Idle /\ layer[l] = None /\ Creates
  /\ \E quad \in CreateQuad, effect \in CreateEffect \cup {"nullptr"},
        t \in Textures \cup {None} :
       layer' = [layer EXCEPT ![l] = [quad |-> quad, effect |-> effect, texture |-> t]]
  /\ UNCHANGED <<device, chainVars, contextVars, textureVars, layers, loop, crashed>>

AddLayer(l) == /\ Idle /\ layer[l] # None /\ Len(layers) < MaxLayers
               /\ layers' = Append(layers, l)
               /\ UNCHANGED <<device, objects, chainVars, contextVars, textureVars, layer,
                              loop, crashed>>

\* (mutant) the pointer is reset, and its place is kept
BlankLayer(l) == /\ Idle /\ l \in ToSet(layers)
                 /\ layers' = ReplaceFirstSubSeq(<<None>>, <<l>>, layers)
                 /\ UNCHANGED <<device, objects, chainVars, contextVars, textureVars,
                                layer, loop, crashed>>

\* the first place of the layer is erased
RemoveLayer(l) == /\ Idle
                  /\ \E i \in DOMAIN layers : /\ layers[i] = l
                                              /\ \A j \in 1 .. i - 1 : layers[j] # l
                                              /\ layers' = RemoveAt(layers, i)
                  /\ UNCHANGED <<device, objects, chainVars, contextVars, textureVars,
                                 layer, loop, crashed>>

\* composition::render and composition::resize call every layer in turn
StartLoop(op) == /\ Idle /\ layers # << >>
                 /\ loop' = [i \in DOMAIN layers |-> <<op, layers[i]>>]
                 /\ UNCHANGED <<device, objects, chainVars, contextVars, textureVars,
                                layer, layers, crashed>>

Visits(op, l) == /\ loop # << >> /\ Head(loop) = <<op, l>> /\ crashed = None
                 /\ loop' = Tail(loop)
                 /\ UNCHANGED <<device, chainVars, target, viewport, layer, layers>>

\* (mutant) a layer without an effect of its own is drawn with the last one
DrawWithLast(l) == [pipeline EXCEPT !.quad = l, !.view = srv[layer[l].texture],
                                    !.effect = IF layer[l].effect = "blank" THEN @ ELSE l]

\* the binders of layer::render set all three before draw()
Pipeline(l) == [quad |-> l, effect |-> l, view |-> srv[layer[l].texture]]

Drawable(l) == layer[l].quad /\ layer[l].effect # "nullptr" /\ layer[l].texture # None

\* layer::render; an incomplete layer is passed over
RenderLayer(l) == /\ Visits("render", l)
                  /\ pipeline' = IF Drawable(l) THEN Pipeline(l) ELSE pipeline
                  /\ UNCHANGED <<textureVars, objects, crashed>>

HasImage(l) == layer[l].texture # None /\ tex[layer[l].texture] # 0

\* layer::resize, which looks neither for a texture nor for its image
ResizeLayer(l) == /\ Visits("resize", l) /\ UNCHANGED pipeline
                  /\ IF HasImage(l)
                       THEN TextureResize(layer[l].texture) /\ UNCHANGED crashed
                       ELSE crashed' = l /\ UNCHANGED <<textureVars, objects>>

-----------------------------------------------------------------------------
Next == \/ MakeDevice
        \/ \E c \in Chain : \/ MakeSwapchain(c) \/ MakeSwapchainForComposition(c)
                           \/ Bind(c) \/ Unbind(c) \/ Present(c) \/ PresentDirty(c)
                           \/ \E s \in Sizes : Resize(c, s)
        \/ \E t \in Texture : \/ MakeTexture2d(t) \/ OpenSharedTexture2d(t)
                             \/ \E other \in Texture \ {t} : Reset(t, other)
        \/ \E l \in Layer : \/ MakeLayer(l) \/ AddLayer(l) \/ RemoveLayer(l)
                           \/ RenderLayer(l) \/ ResizeLayer(l)
        \/ StartLoop("render") \/ StartLoop("resize")

Spec == Init /\ [][Next]_vars

-----------------------------------------------------------------------------
(* Properties. *)

Number == 0 .. MaxObjects
Sized == Sizes \cup {NoSize}

\* The type invariant of the chains, the context, the textures and the layers.
TypeOK == /\ device \in BOOLEAN /\ objects \in Number /\ crashed \in Chain \cup Layer \cup {None}
          /\ size \in [Chain -> Sized] /\ extent \in [Chain -> Nat \X Nat]
          /\ wanted \in [Chain -> Sized]
          /\ rtv \in [Chain -> Number] /\ buffers \in [Chain -> Number]
          /\ bound \in [Chain -> BOOLEAN] /\ first_frame \in [Chain -> BOOLEAN]
          /\ refused \subseteq Chain /\ lost \subseteq Chain
          /\ target \in (Chain \cup {None}) \X Number
          /\ viewport \in (Chain \cup {None}) \X Sized
          /\ pipeline \in [quad : Layer \cup {None}, effect : Layer \cup {None}, view : Number]
          /\ tex \in [Texture -> Number] /\ srv \in [Texture -> Number]
          /\ stale \subseteq Texture
          /\ layer \in [Layer -> [quad : BOOLEAN, effect : {"complete", "blank", "nullptr"},
                                  texture : Texture \cup {None}] \cup {None}]
          /\ layers \in Seq(Layer) /\ loop \in Seq({"render", "resize"} \X Layer)

\* What is drawn lands in the buffers that the chain presents, and fills them:
\* the render target is a view of the chain's present buffers, and the viewport,
\* if this chain was the last to set it, has their size.  Only a GetBuffer that
\* failed inside resize() leaves a view of buffers that are gone; and only over the
\* first buffers of a chain, when it was made with no area and they have taken the
\* window's, is there a viewport of no area.
TargetFits == \A c \in Chain : target[1] = c /\ c \notin lost =>
                /\ target[2] = buffers[c]
                /\ viewport[1] = c => IF HasArea(viewport[2]) THEN viewport[2] = extent[c]
                                      ELSE buffers[c] = 1

\* The buffers have the size that the program asked for last, unless that has no area,
\* ResizeBuffers refused it, or it shares its width or its height with the one the
\* chain believes to have, which resize() takes for no change.
SizeFollows ==
  \A c \in Chain \ {crashed} : HasArea(wanted[c]) /\ wanted[c] # extent[c] =>
    c \in refused \/ (wanted[c] # size[c] /\ Ignored(c, wanted[c]))

\* A layer is drawn with its own geometry and effect and shows the image that its
\* texture holds now, unless a step of a resize failed, reset() changed the image
\* or a shared texture could not be viewed, and no later resize succeeded.
DrawsItsTexture ==
  [][\A l \in Layer : loop # << >> /\ Head(loop) = <<"render", l>> /\ Drawable(l) =>
       /\ pipeline'.quad = l /\ pipeline'.effect = l
       /\ pipeline'.view = tex[layer[l].texture] \/ layer[l].texture \in stale]_vars
=============================================================================
