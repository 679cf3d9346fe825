--------------------------- MODULE GraphicsProofs ---------------------------
(* Where a swap chain draws, how large its buffers are and what a layer shows, *)
(* for any number of chains, textures, layers, sizes and objects.              *)
EXTENDS Graphics, TLAPS

\* the fields of the chains are functions on them
Fields == /\ size \in [Chain -> Nat \X Nat] /\ extent \in [Chain -> Nat \X Nat]
          /\ wanted \in [Chain -> Nat \X Nat]
          /\ rtv \in [Chain -> Nat] /\ buffers \in [Chain -> Nat]

\* A view that is not a leftover views the present buffers, whether it is bound or
\* not: bind() may make it the render target at any time.
Targets == \A c \in Chain \ lost :
             /\ rtv[c] \in {0, buffers[c]}
             /\ target[1] = c => target[2] = buffers[c]
             /\ viewport[1] = c => IF HasArea(viewport[2]) THEN viewport[2] = extent[c]
                                   ELSE buffers[c] = 1

\* The chain's idea of its size is that of its buffers, unless ResizeBuffers failed or
\* the chain still believes to have no area.
Believes == \A c \in Chain \ {crashed} :
              HasArea(size[c]) /\ size[c] # extent[c] => c \in refused

GInv == Fields /\ Targets /\ Believes /\ SizeFollows

LEMMA NoneIsNoChain == None \notin Chain
  BY GraphicsAssumption

LEMMA GInit == Init => GInv
<1> SUFFICES ASSUME Init PROVE GInv
  OBVIOUS
<1>1. Fields
  BY DEF Init, Fields, NoSize
<1>2. Targets
  BY NoneIsNoChain DEF Init, Targets, NoTarget
<1>3. Believes /\ SizeFollows
  BY DEF Init, Believes, SizeFollows
<1>4. QED
  BY <1>1, <1>2, <1>3 DEF GInv

\* what the invariant is about
chainPart == <<size, rtv, extent, buffers, wanted, refused, lost, target, viewport, crashed>>

LEMMA GStutter == GInv /\ UNCHANGED chainPart => GInv'
  BY DEF GInv, Fields, Targets, Believes, SizeFollows, Ignored, chainPart

\* a new chain
LEMMA GMade ==
  ASSUME GInv, NEW c \in Chain, NEW s \in Sizes, ChainMade(c, s) PROVE GInv'
<1>1. PICK window \in Sizes : extent' = [extent EXCEPT ![c] = BuffersFor(s, window)]
  BY DEF ChainMade
<1>2. s \in Nat \X Nat /\ window \in Nat \X Nat /\ BuffersFor(s, window) \in Nat \X Nat
  BY GraphicsAssumption DEF BuffersFor
<1>3. HasArea(s) => BuffersFor(s, window) = s
  BY <1>2 DEF HasArea, BuffersFor
<1> HIDE DEF BuffersFor, HasArea
<1>4. Fields'
  BY <1>1, <1>2 DEF GInv, Fields, ChainMade
<1>5. Targets'
  BY <1>1, <1>3, NoneIsNoChain DEF GInv, Fields, Targets, ChainMade
<1>6. crashed' = crashed
  BY DEF ChainMade, layerVars
<1>7. Believes'
  BY <1>6, <1>1, <1>3 DEF GInv, Fields, Believes, ChainMade
<1>8. SizeFollows'
  BY <1>6, <1>1, <1>3 DEF GInv, Fields, SizeFollows, Ignored, ChainMade
<1>9. QED
  BY <1>4, <1>5, <1>7, <1>8 DEF GInv

LEMMA GBind == ASSUME GInv, NEW c \in Chain, Bind(c) PROVE GInv'
<1>1. Fields' /\ Believes' /\ SizeFollows'
  BY DEF GInv, Fields, Believes, SizeFollows, Ignored, Bind, layerVars
<1>2. Targets'
  BY NoneIsNoChain DEF GInv, Fields, Targets, Bind, NoTarget
<1>3. QED
  BY <1>1, <1>2 DEF GInv

\* presenting may take the render target away, and changes nothing else
LEMMA GPresent ==
  ASSUME GInv, NEW c \in Chain, Present(c) \/ PresentDirty(c) PROVE GInv'
<1>1. Fields' /\ Believes' /\ SizeFollows'
  BY DEF GInv, Fields, Believes, SizeFollows, Ignored, Present, PresentDirty, layerVars
<1>2. target' \in {target, NoTarget}
  BY DEF Present, PresentDirty, Presents
<1>3. Targets'
  BY <1>2, NoneIsNoChain DEF GInv, Targets, NoTarget, Present, PresentDirty
<1>4. QED
  BY <1>1, <1>3 DEF GInv

\* Every outcome of resize().
LEMMA GResize ==
  ASSUME GInv, NEW c \in Chain, NEW s \in Sizes, Resize(c, s) PROVE GInv'
<1> USE NoneIsNoChain DEF GInv, Fields
<1>1. s \in Nat \X Nat
  BY GraphicsAssumption
<1>2. CASE ResizeIgnored(c, s)
  <2>1. UNCHANGED <<size, rtv, extent, buffers, refused, lost, target, viewport, crashed>>
    BY <1>2 DEF ResizeIgnored, layerVars
  <2>2. Fields' /\ Targets' /\ Believes'
    BY <1>1, <1>2, <2>1 DEF ResizeIgnored, Targets, Believes
  <2>3. SizeFollows'
    BY <1>2, <2>1 DEF ResizeIgnored, SizeFollows, Believes, Ignored
  <2>4. QED
    BY <2>2, <2>3
<1>3. CASE ResizeUnbound(c, s)
  <2>1. Fields' /\ Targets'
    BY <1>1, <1>3 DEF ResizeUnbound, Resizes, Targets
  <2>2. Believes' /\ SizeFollows'
    BY <1>3 DEF ResizeUnbound, Resizes, Idle, Believes, SizeFollows, Ignored
  <2>3. QED
    BY <2>1, <2>2
<1>4. CASE ResizeRefused(c, s)
  <2>1. Fields' /\ Targets'
    BY <1>1, <1>4 DEF ResizeRefused, Resizes, Targets, NoTarget
  <2>2. Believes' /\ SizeFollows'
    BY <1>4 DEF ResizeRefused, Resizes, Believes, SizeFollows, Ignored
  <2>3. QED
    BY <2>1, <2>2
<1>5. CASE BuffersResized(c, s) /\ (BufferLost(c, s) \/ ViewLost(c, s) \/ ResizeDone(c, s))
  <2>1. /\ buffers' = [buffers EXCEPT ![c] = @ + 1] /\ extent' = [extent EXCEPT ![c] = s]
        /\ size' = [size EXCEPT ![c] = s] /\ wanted' = [wanted EXCEPT ![c] = s]
        /\ refused' = refused \ {c} /\ crashed' = crashed
    BY <1>5 DEF BuffersResized, Resizes
  <2>2. rtv' = rtv \/ rtv' = [rtv EXCEPT ![c] = 0] \/ rtv' = [rtv EXCEPT ![c] = buffers'[c]]
    BY <1>5 DEF BufferLost, ViewLost, ResizeDone
  <2>3. Fields'
    BY <1>1, <2>1, <2>2
  <2>4. HasArea(s)
    BY <1>5 DEF BuffersResized, Resizes, Ignored
  <2>5. Targets'
    BY <1>5, <2>1, <2>4 DEF Targets, BufferLost, ViewLost, ResizeDone, NoTarget
  <2>6. Believes' /\ SizeFollows'
    BY <2>1 DEF Believes, SizeFollows, Ignored
  <2>7. QED
    BY <2>3, <2>5, <2>6
<1>6. QED
  BY <1>2, <1>3, <1>4, <1>5 DEF Resize, BufferLost, ViewLost, ResizeDone

\* a layer that crashes is none of the chains
LEMMA GCrash ==
  ASSUME GInv, crashed = None, UNCHANGED <<chainVars, target, viewport>> PROVE GInv'
  BY NoneIsNoChain DEF GInv, Fields, Targets, Believes, SizeFollows, Ignored, chainVars

LEMMA GStep == GInv /\ [Next]_vars => GInv'
<1> SUFFICES ASSUME GInv, [Next]_vars PROVE GInv'
  OBVIOUS
<1> USE DEF chainPart
<1>1. CASE MakeDevice
  BY <1>1, GStutter DEF MakeDevice, chainVars, layerVars
<1>2. ASSUME NEW c \in Chain, MakeSwapchain(c) \/ MakeSwapchainForComposition(c) PROVE GInv'
  BY <1>2, GMade DEF MakeSwapchain, MakeSwapchainForComposition
<1>3. ASSUME NEW c \in Chain, Bind(c) PROVE GInv'
  BY <1>3, GBind
<1>4. ASSUME NEW c \in Chain, Unbind(c) PROVE GInv'
  BY <1>4, GStutter DEF Unbind, layerVars
<1>5. ASSUME NEW c \in Chain, Present(c) \/ PresentDirty(c) PROVE GInv'
  BY <1>5, GPresent
<1>6. ASSUME NEW c \in Chain, NEW s \in Sizes, Resize(c, s) PROVE GInv'
  BY <1>6, GResize
<1>7. ASSUME NEW t \in Texture, MakeTexture2d(t) \/ OpenSharedTexture2d(t) PROVE GInv'
  BY <1>7, GStutter
     DEF MakeTexture2d, OpenSharedTexture2d, chainVars, contextVars, layerVars
<1>8. ASSUME NEW t \in Texture, NEW other \in Texture, Reset(t, other) PROVE GInv'
  BY <1>8, GStutter DEF Reset, chainVars, contextVars, layerVars
<1>9. ASSUME NEW l \in Layer, MakeLayer(l) \/ AddLayer(l) \/ RemoveLayer(l) PROVE GInv'
  BY <1>9, GStutter DEF MakeLayer, AddLayer, RemoveLayer, chainVars, contextVars
<1>10. ASSUME NEW l \in Layer, RenderLayer(l) \/ ResizeLayer(l) PROVE GInv'
  BY <1>10, GCrash DEF RenderLayer, ResizeLayer, Visits
<1>11. CASE StartLoop("render") \/ StartLoop("resize")
  BY <1>11, GStutter DEF StartLoop, chainVars, contextVars
<1>12. CASE UNCHANGED vars
  BY <1>12, GStutter DEF vars, chainVars, layerVars
<1>13. QED
  BY <1>1, <1>2, <1>3, <1>4, <1>5, <1>6, <1>7, <1>8, <1>9, <1>10, <1>11, <1>12 DEF Next

LEMMA GInvariant == Spec => []GInv
<1>1. QED
  BY GInit, GStep, PTL DEF Spec

\* what the invariant says of the render target and the viewport
LEMMA Fits == GInv => TargetFits
  BY DEF GInv, Targets, TargetFits

\* Nothing is drawn into buffers that are gone, or past the present ones, unless
\* GetBuffer failed.
THEOREM TargetsFit == Spec => []TargetFits
<1>1. QED
  BY GInvariant, Fits, PTL

\* The buffers have the size asked for last, unless it was refused or ignored.
THEOREM SizesFollow == Spec => []SizeFollows
<1>1. GInv => SizeFollows
  BY DEF GInv
<1>2. QED
  BY <1>1, GInvariant, PTL

-----------------------------------------------------------------------------
(* What the layers show. *)

\* A view shows the image that its texture holds, or the texture is stale.
Views == \A t \in Texture : srv[t] = tex[t] \/ t \in stale

\* the layers of the composition and of a loop over it have been made, from textures
LayersMade == /\ DOMAIN layer = Layer
              /\ \A l \in Layer : layer[l] # None => layer[l].texture \in Texture \cup {None}
              /\ layers \in Seq(Layer) /\ \A i \in 1 .. Len(layers) : layer[layers[i]] # None
              /\ loop \in Seq({"render", "resize"} \X Layer)
              /\ \A i \in 1 .. Len(loop) : layer[loop[i][2]] # None

VTypes == /\ tex \in [Texture -> Nat] /\ srv \in [Texture -> Nat] /\ objects \in Nat
          /\ stale \subseteq Texture

VInv == VTypes /\ Views /\ LayersMade /\ (loop # << >> => device)

LEMMA VInit == Init => VInv
<1> SUFFICES ASSUME Init PROVE VInv
  OBVIOUS
<1>1. VTypes /\ Views
  BY DEF Init, VTypes, Views
<1>2. LayersMade
  BY DEF Init, LayersMade
<1>3. QED
  BY <1>1, <1>2 DEF Init, VInv

LEMMA VTextures ==
  ASSUME VInv, NEW t \in Texture,
         \/ MakeTexture2d(t) \/ OpenSharedTexture2d(t) \/ TextureResize(t)
         \/ \E other \in Texture : Reset(t, other)
  PROVE  VTypes' /\ Views'
<1> USE DEF VInv, VTypes
<1>1. CASE MakeTexture2d(t)
  BY <1>1 DEF MakeTexture2d, Creates, Views, layerVars
<1>2. CASE OpenSharedTexture2d(t)
  BY <1>2 DEF OpenSharedTexture2d, Creates, Views, layerVars
<1>3. ASSUME NEW other \in Texture, Reset(t, other) PROVE VTypes' /\ Views'
  BY <1>3 DEF Reset, Views, layerVars
<1>4. CASE TextureResized(t)
  BY <1>4 DEF TextureResized, Creates, Views
<1>5. CASE ImageLost(t)
  BY <1>5 DEF ImageLost, Views
<1>6. CASE TextureViewLost(t)
  BY <1>6 DEF TextureViewLost, Creates, Views
<1>7. QED
  BY <1>1, <1>2, <1>3, <1>4, <1>5, <1>6 DEF TextureResize

LEMMA VLayersSame == LayersMade /\ UNCHANGED <<layer, layers, loop>> => LayersMade'
  BY DEF LayersMade

LEMMA VMakeLayer == ASSUME LayersMade, NEW l \in Layer, MakeLayer(l) PROVE LayersMade'
<1>1. PICK quad \in CreateQuad, effect \in CreateEffect \cup {"nullptr"},
           t \in Textures \cup {None} :
        layer' = [layer EXCEPT ![l] = [quad |-> quad, effect |-> effect, texture |-> t]]
  BY DEF MakeLayer
<1>2. layer[l] = None /\ UNCHANGED <<layers, loop>> /\ t \in Texture \cup {None}
  BY DEF MakeLayer, Textures
<1>3. layer'[l].texture = t /\ \A m \in Layer : m # l => layer'[m] = layer[m]
  BY <1>1 DEF LayersMade
<1>4. DOMAIN layer' = Layer
        /\ \A m \in Layer : layer'[m] # None => layer'[m].texture \in Texture \cup {None}
  BY <1>1, <1>2, <1>3 DEF LayersMade
<1>5. \A i \in 1 .. Len(layers) : layers[i] \in Layer /\ layers[i] # l
  BY <1>2 DEF LayersMade
<1>6. \A i \in 1 .. Len(loop) : loop[i][2] \in Layer /\ loop[i][2] # l
  BY <1>2 DEF LayersMade
<1>7. QED
  BY <1>2, <1>3, <1>4, <1>5, <1>6 DEF LayersMade

LEMMA VAddLayer == ASSUME LayersMade, NEW l \in Layer, AddLayer(l) PROVE LayersMade'
<1>1. layers' = Append(layers, l) /\ layer[l] # None /\ UNCHANGED <<layer, loop>>
  BY DEF AddLayer
<1>2. layers' \in Seq(Layer) /\ \A i \in 1 .. Len(layers') : layer[layers'[i]] # None
  BY <1>1 DEF LayersMade
<1>3. QED
  BY <1>1, <1>2 DEF LayersMade

\* two sequences in a row
LEMMA Joined ==
  ASSUME NEW S, NEW s \in Seq(S), NEW t \in Seq(S)
  PROVE  /\ s \o t \in Seq(S) /\ Len(s \o t) = Len(s) + Len(t)
         /\ \A j \in 1 .. Len(s) : (s \o t)[j] = s[j]
         /\ \A j \in 1 .. Len(t) : (s \o t)[Len(s) + j] = t[j]
  OBVIOUS

LEMMA VRemoveLayer == ASSUME LayersMade, NEW l \in Layer, RemoveLayer(l) PROVE LayersMade'
<1>1. UNCHANGED <<layer, loop>>
  BY DEF RemoveLayer
<1>2. PICK i \in 1 .. Len(layers) : layers' = RemoveAt(layers, i)
  BY DEF RemoveLayer, LayersMade
<1> DEFINE before == SubSeq(layers, 1, i - 1)
           after == SubSeq(layers, i + 1, Len(layers))
<1>3. /\ before \in Seq(Layer) /\ Len(before) = i - 1
      /\ \A j \in 1 .. i - 1 : before[j] = layers[j]
  BY DEF LayersMade
<1>4. /\ after \in Seq(Layer) /\ Len(after) = Len(layers) - i
      /\ \A j \in 1 .. Len(layers) - i : after[j] = layers[i + j]
  BY DEF LayersMade
<1>5. layers' = before \o after
  BY <1>2 DEF RemoveAt
<1> HIDE DEF before, after
<1>6. layers' \in Seq(Layer) /\ Len(layers') = Len(layers) - 1
  <2>1. layers' \in Seq(Layer) /\ Len(layers') = Len(before) + Len(after)
    BY <1>3, <1>4, <1>5, Joined
  <2>2. Len(layers) \in Nat /\ i \in 1 .. Len(layers)
    BY DEF LayersMade
  <2>3. QED
    BY <1>3, <1>4, <2>1, <2>2
<1>7. ASSUME NEW j \in 1 .. Len(layers') PROVE layer[layers'[j]] # None
  <2>1. CASE j <= i - 1
    <3>1. layers'[j] = layers[j]
      BY <1>3, <1>4, <1>5, <2>1, Joined
    <3>2. QED
      BY <1>6, <3>1 DEF LayersMade
  <2>2. CASE j > i - 1
    <3>1. j - (i - 1) \in 1 .. Len(after) /\ j = (i - 1) + (j - (i - 1))
      BY <1>4, <1>6, <2>2 DEF LayersMade
    <3>2. layers'[j] = after[j - (i - 1)]
      BY <1>3, <1>4, <1>5, <3>1, Joined
    <3>3. layers'[j] = layers[j + 1]
      BY <1>4, <3>1, <3>2
    <3>4. QED
      BY <1>6, <3>3 DEF LayersMade
  <2>3. QED
    BY <1>6, <2>1, <2>2 DEF LayersMade
<1>8. QED
  BY <1>1, <1>6, <1>7 DEF LayersMade

LEMMA VStartLoop ==
  ASSUME LayersMade, NEW op \in {"render", "resize"}, StartLoop(op) PROVE LayersMade'
<1>1. /\ UNCHANGED <<layer, layers>>
      /\ loop' = [i \in 1 .. Len(layers) |-> <<op, layers[i]>>]
  BY DEF StartLoop, LayersMade
<1>2. /\ loop' \in Seq({"render", "resize"} \X Layer)
      /\ \A i \in 1 .. Len(loop') : loop'[i][2] = layers[i] /\ i \in 1 .. Len(layers)
  BY <1>1 DEF LayersMade
<1>3. QED
  BY <1>1, <1>2 DEF LayersMade

LEMMA VVisits ==
  ASSUME LayersMade, NEW op, NEW l \in Layer, Visits(op, l) PROVE LayersMade'
<1>1. UNCHANGED <<layer, layers>> /\ loop # << >> /\ loop' = Tail(loop)
  BY DEF Visits
<1>2. loop' \in Seq({"render", "resize"} \X Layer)
      /\ \A i \in 1 .. Len(loop') : loop'[i] = loop[i + 1] /\ i + 1 \in 1 .. Len(loop)
  BY <1>1 DEF LayersMade
<1>3. QED
  BY <1>1, <1>2 DEF LayersMade
\* the layer of the visit under way
LEMMA VVisited ==
  ASSUME LayersMade, NEW op, NEW l \in Layer, loop # << >>, Head(loop) = <<op, l>>
  PROVE  layer[l] # None /\ layer[l].texture \in Texture \cup {None}
<1>1. 1 \in 1 .. Len(loop) /\ loop[1] = <<op, l>>
  BY DEF LayersMade
<1>2. layer[l] # None
  BY <1>1 DEF LayersMade
<1>3. QED
  BY <1>2 DEF LayersMade

\* the steps of chains: they may count an object, and leave textures and layers alone
LEMMA VChains ==
  ASSUME VInv, UNCHANGED <<textureVars, layer, layers, loop>>, objects' \in Nat,
         device => device'
  PROVE  VInv'
<1>1. VTypes' /\ Views'
  BY DEF VInv, VTypes, Views, textureVars
<1>2. LayersMade'
  BY VLayersSame DEF VInv
<1>3. QED
  BY <1>1, <1>2 DEF VInv

\* the steps of textures
LEMMA VImages ==
  ASSUME VInv, NEW t \in Texture,
         \/ MakeTexture2d(t) \/ OpenSharedTexture2d(t)
         \/ \E other \in Texture : Reset(t, other)
  PROVE  VInv'
<1>1. VTypes' /\ Views'
  BY VTextures
<1>2. UNCHANGED <<layer, layers, loop, device>>
  BY DEF MakeTexture2d, OpenSharedTexture2d, Reset, layerVars
<1>3. LayersMade'
  BY <1>2, VLayersSame DEF VInv
<1>4. QED
  BY <1>1, <1>2, <1>3 DEF VInv

\* the steps of layers that touch no texture
LEMMA VLayers ==
  ASSUME VInv, LayersMade', UNCHANGED textureVars, objects' \in Nat,
         device' = device, device \/ loop' = loop
  PROVE  VInv'
<1>1. VTypes' /\ Views'
  BY DEF VInv, VTypes, Views, textureVars
<1>2. QED
  BY <1>1 DEF VInv

LEMMA VResizeLayer == ASSUME VInv, NEW l \in Layer, ResizeLayer(l) PROVE VInv'
<1>1. LayersMade' /\ Visits("resize", l)
  BY VVisits DEF ResizeLayer, VInv
<1>2. device' = device /\ device
  BY <1>1 DEF Visits, VInv
<1>3. CASE HasImage(l)
  <2>1. layer[l].texture \in Texture
    BY <1>1, <1>3, VVisited DEF Visits, VInv, HasImage
  <2>2. VTypes' /\ Views'
    BY <1>3, <2>1, VTextures DEF ResizeLayer
  <2>3. QED
    BY <1>1, <1>2, <2>2 DEF VInv
<1>4. CASE ~HasImage(l)
  BY <1>1, <1>2, <1>4, VLayers DEF ResizeLayer, VInv, VTypes
<1>5. QED
  BY <1>3, <1>4

LEMMA VStep == VInv /\ [Next]_vars => VInv'
<1> SUFFICES ASSUME VInv, [Next]_vars PROVE VInv'
  OBVIOUS
<1>1. objects \in Nat /\ LayersMade
  BY DEF VInv, VTypes
<1>2. CASE MakeDevice
  BY <1>1, <1>2, VChains DEF MakeDevice, layerVars
<1>3. ASSUME NEW c \in Chain, MakeSwapchain(c) \/ MakeSwapchainForComposition(c) PROVE VInv'
  <2>1. PICK s \in Sizes : ChainMade(c, s)
    BY <1>3 DEF MakeSwapchain, MakeSwapchainForComposition
  <2>2. QED
    BY <1>1, <2>1, VChains DEF ChainMade, Creates, layerVars
<1>4. ASSUME NEW c \in Chain, Bind(c) \/ Unbind(c) \/ Present(c) \/ PresentDirty(c) PROVE VInv'
  BY <1>1, <1>4, VChains DEF Bind, Unbind, Present, PresentDirty, layerVars
<1>5. ASSUME NEW c \in Chain, NEW s \in Sizes, Resize(c, s) PROVE VInv'
  <2>1. /\ UNCHANGED <<textureVars, layer, layers, loop, device>>
        /\ objects' = objects \/ Creates
    BY <1>5 DEF Resize, ResizeIgnored, ResizeUnbound, ResizeRefused, BufferLost, ViewLost,
                ResizeDone, BuffersResized, Resizes, layerVars
  <2>2. QED
    BY <1>1, <2>1, VChains DEF Creates
<1>6. ASSUME NEW t \in Texture, MakeTexture2d(t) \/ OpenSharedTexture2d(t) PROVE VInv'
  BY <1>6, VImages
<1>7. ASSUME NEW t \in Texture, NEW other \in Texture, Reset(t, other) PROVE VInv'
  BY <1>7, VImages
<1>8. ASSUME NEW l \in Layer, MakeLayer(l) PROVE VInv'
  <2>1. LayersMade'
    BY <1>1, <1>8, VMakeLayer
  <2>2. UNCHANGED <<textureVars, loop, device>> /\ objects' \in Nat
    BY <1>1, <1>8 DEF MakeLayer, Creates
  <2>3. QED
    BY <2>1, <2>2, VLayers
<1>9. ASSUME NEW l \in Layer, AddLayer(l) PROVE VInv'
  BY <1>1, <1>9, VAddLayer, VLayers DEF AddLayer
<1>10. ASSUME NEW l \in Layer, RemoveLayer(l) PROVE VInv'
  BY <1>1, <1>10, VRemoveLayer, VLayers DEF RemoveLayer
<1>11. ASSUME NEW op \in {"render", "resize"}, StartLoop(op) PROVE VInv'
  BY <1>1, <1>11, VStartLoop, VLayers DEF StartLoop, Idle
<1>12. ASSUME NEW l \in Layer, RenderLayer(l) PROVE VInv'
  <2>1. LayersMade' /\ device
    BY <1>1, <1>12, VVisits DEF RenderLayer, Visits, VInv
  <2>2. QED
    BY <1>1, <1>12, <2>1, VLayers DEF RenderLayer, Visits
<1>13. ASSUME NEW l \in Layer, ResizeLayer(l) PROVE VInv'
  BY <1>13, VResizeLayer
<1>14. CASE UNCHANGED vars
  BY <1>1, <1>14, VChains DEF vars, layerVars
<1>15. QED
  BY <1>2, <1>3, <1>4, <1>5, <1>6, <1>7, <1>8, <1>9, <1>10, <1>11, <1>12, <1>13, <1>14 DEF Next

\* While a loop has layers to visit, no step but the visit is possible.
LEMMA OnlyVisits ==
  ASSUME VInv, NEW l \in Layer, loop # << >>, Head(loop) = <<"render", l>>, Next
  PROVE  RenderLayer(l)
<1>1. device /\ ~Idle
  BY DEF VInv, Idle
<1>2. ~MakeDevice /\ \A op \in {"render", "resize"} : ~StartLoop(op)
  BY <1>1 DEF MakeDevice, StartLoop
<1>3. \A c \in Chain : /\ ~MakeSwapchain(c) /\ ~MakeSwapchainForComposition(c)
                       /\ ~Bind(c) /\ ~Unbind(c) /\ ~Present(c) /\ ~PresentDirty(c)
  BY <1>1 DEF MakeSwapchain, MakeSwapchainForComposition, ChainMade, Bind, Unbind, Present,
              PresentDirty, Presents
<1>4. \A c \in Chain, s \in Sizes : ~Resize(c, s)
  <2>1. \A c \in Chain, s \in Sizes : /\ ~ResizeIgnored(c, s) /\ ~Resizes(c, s)
                                     /\ ~ResizeUnbound(c, s) /\ ~ResizeRefused(c, s)
                                     /\ ~BuffersResized(c, s)
    BY <1>1 DEF ResizeIgnored, Resizes, ResizeUnbound, ResizeRefused, BuffersResized
  <2>2. QED
    BY <2>1, Zenon DEF Resize, BufferLost, ViewLost, ResizeDone
<1>5. \A t \in Texture : /\ ~MakeTexture2d(t) /\ ~OpenSharedTexture2d(t)
                         /\ \A other \in Texture : ~Reset(t, other)
  BY <1>1 DEF MakeTexture2d, OpenSharedTexture2d, Reset
<1>6. \A m \in Layer : ~MakeLayer(m) /\ ~AddLayer(m) /\ ~RemoveLayer(m)
  BY <1>1 DEF MakeLayer, AddLayer, RemoveLayer
<1>7. PICK m \in Layer : RenderLayer(m) \/ ResizeLayer(m)
  BY <1>2, <1>3, <1>4, <1>5, <1>6 DEF Next
<1>8. QED
  BY <1>7 DEF RenderLayer, ResizeLayer, Visits

\* A layer is drawn with its own geometry and effect and shows the image that its
\* texture holds, unless the view of the texture was left behind.
THEOREM LayersDrawTheirTexture == Spec => DrawsItsTexture
<1> DEFINE Draws == \A l \in Layer :
             loop # << >> /\ Head(loop) = <<"render", l>> /\ Drawable(l) =>
               /\ pipeline'.quad = l /\ pipeline'.effect = l
               /\ pipeline'.view = tex[layer[l].texture] \/ layer[l].texture \in stale
<1>1. ASSUME VInv, Next PROVE Draws
  <2> SUFFICES ASSUME NEW l \in Layer, loop # << >>, Head(loop) = <<"render", l>>, Drawable(l)
               PROVE  /\ pipeline'.quad = l /\ pipeline'.effect = l
                      /\ \/ pipeline'.view = tex[layer[l].texture]
                         \/ layer[l].texture \in stale
    OBVIOUS
  <2>1. pipeline' = Pipeline(l)
    BY <1>1, OnlyVisits DEF RenderLayer
  <2>2. layer[l].texture \in Texture
    BY <1>1, VVisited DEF VInv, Drawable
  <2>3. QED
    BY <1>1, <2>1, <2>2 DEF Pipeline, VInv, Views
<1>2. VInv /\ [Next]_vars => [Draws]_vars
  BY <1>1
<1>3. QED
  BY <1>2, VInit, VStep, PTL DEF Spec, DrawsItsTexture

-----------------------------------------------------------------------------
(* The types.  Numbers are given in turn, so that none is above `objects`. *)

Given == 0 .. objects

ChainTypes ==
  /\ size \in [Chain -> Sized] /\ wanted \in [Chain -> Sized]
  /\ extent \in [Chain -> Nat \X Nat]
  /\ rtv \in [Chain -> Given] /\ buffers \in [Chain -> Given]
  /\ bound \in [Chain -> BOOLEAN] /\ first_frame \in [Chain -> BOOLEAN]
  /\ refused \subseteq Chain /\ lost \subseteq Chain

\* the render target and the viewport
TargetTypes == /\ target \in (Chain \cup {None}) \X Given
               /\ viewport \in (Chain \cup {None}) \X Sized

ImageTypes == /\ tex \in [Texture -> Given] /\ srv \in [Texture -> Given]
              /\ stale \subseteq Texture
              /\ pipeline \in [quad : Layer \cup {None}, effect : Layer \cup {None}, view : Given]

LayerTypes == layer \in [Layer -> [quad : BOOLEAN, effect : {"complete", "blank", "nullptr"},
                                   texture : Texture \cup {None}] \cup {None}]

RestTypes == device \in BOOLEAN /\ objects \in Number /\ crashed \in Chain \cup Layer \cup {None}

TInv == ChainTypes /\ TargetTypes /\ ImageTypes /\ LayerTypes /\ RestTypes

LEMMA TInit == Init => TInv
<1> SUFFICES ASSUME Init PROVE TInv
  OBVIOUS
<1>1. objects = 0 /\ 0 \in Given /\ Number = 0 .. MaxObjects /\ 0 \in Number
  BY GraphicsAssumption DEF Init, Given, Number
<1>2. ChainTypes
  BY <1>1 DEF Init, ChainTypes, Sized, NoSize
<1>3. TargetTypes
  BY <1>1 DEF Init, TargetTypes, Sized, NoTarget
<1>4. ImageTypes
  BY <1>1 DEF Init, ImageTypes
<1>5. LayerTypes
  BY DEF Init, LayerTypes
<1>6. RestTypes
  BY <1>1 DEF Init, RestTypes
<1>7. QED
  BY <1>2, <1>3, <1>4, <1>5, <1>6 DEF TInv

\* A number that was given stays one that was given.
LEMMA GivenGrows ==
  ASSUME RestTypes, objects' = objects \/ Creates
  PROVE  /\ objects' \in Number /\ Given \subseteq Given' /\ 0 \in Given' /\ objects' \in Given'
         /\ Creates => \A n \in Given : n + 1 \in Given'
<1>1. objects \in 0 .. MaxObjects /\ MaxObjects \in Nat
  BY GraphicsAssumption DEF RestTypes, Number
<1>2. objects' \in 0 .. MaxObjects /\ objects <= objects'
  BY <1>1 DEF Creates
<1>3. QED
  BY <1>1, <1>2 DEF Given, Number, Creates

\* What is left alone keeps its type.
LEMMA TSame ==
  ASSUME TInv, objects' = objects \/ Creates
  PROVE  /\ UNCHANGED chainVars => ChainTypes'
         /\ UNCHANGED <<target, viewport>> => TargetTypes'
         /\ UNCHANGED <<textureVars, pipeline>> => ImageTypes'
         /\ UNCHANGED layer => LayerTypes'
         /\ UNCHANGED <<device, crashed>> => RestTypes'
<1>1. objects' \in Number /\ Given \subseteq Given'
  BY GivenGrows DEF TInv
<1>2. UNCHANGED chainVars => ChainTypes'
  <2>1. \A f \in [Chain -> Given] : f \in [Chain -> Given']
    BY <1>1
  <2>2. QED
    BY <2>1 DEF TInv, ChainTypes, chainVars
<1>3. UNCHANGED <<target, viewport>> => TargetTypes'
  BY <1>1 DEF TInv, TargetTypes
<1>4. UNCHANGED <<textureVars, pipeline>> => ImageTypes'
  <2>1. \A f \in [Texture -> Given] : f \in [Texture -> Given']
    BY <1>1
  <2>2. UNCHANGED pipeline =>
          pipeline' \in [quad : Layer \cup {None}, effect : Layer \cup {None}, view : Given']
    BY <1>1 DEF TInv, ImageTypes
  <2>3. QED
    BY <2>1, <2>2 DEF TInv, ImageTypes, textureVars
<1>5. UNCHANGED layer => LayerTypes'
  BY DEF TInv, LayerTypes
<1>6. UNCHANGED <<device, crashed>> => RestTypes'
  BY <1>1 DEF TInv, RestTypes
<1>7. QED
  BY <1>2, <1>3, <1>4, <1>5, <1>6

LEMMA TMade == ASSUME TInv, NEW c \in Chain, NEW s \in Sizes, ChainMade(c, s) PROVE TInv'
<1>1. Creates /\ s \in Sized
  BY DEF ChainMade, Sized
<1>2. ImageTypes' /\ LayerTypes' /\ RestTypes'
  BY <1>1, TSame DEF ChainMade, layerVars
<1>3. Given \subseteq Given' /\ 1 \in Given' /\ 0 \in Given
  BY <1>1, GraphicsAssumption DEF TInv, RestTypes, Number, Given, Creates
<1>4. ChainTypes'
  <2>1. PICK window \in Sizes : extent' = [extent EXCEPT ![c] = BuffersFor(s, window)]
    BY DEF ChainMade
  <2>2. BuffersFor(s, window) \in Nat \X Nat
    BY GraphicsAssumption DEF BuffersFor
  <2>3. QED
    BY <1>1, <1>3, <2>1, <2>2 DEF TInv, ChainTypes, ChainMade
<1>5. TargetTypes'
  BY <1>1, <1>3 DEF TargetTypes, ChainMade
<1>6. QED
  BY <1>2, <1>4, <1>5 DEF TInv

\* the calls of a chain that is there, but for resize()
LEMMA TUses ==
  ASSUME TInv, NEW c \in Chain, Bind(c) \/ Unbind(c) \/ Present(c) \/ PresentDirty(c)
  PROVE  TInv'
<1>1. /\ UNCHANGED <<device, objects, crashed, layer, textureVars, pipeline, viewport>>
      /\ UNCHANGED <<size, rtv, buffers, extent, wanted, refused, lost>>
  BY DEF Bind, Unbind, Present, PresentDirty, layerVars
<1>2. ImageTypes' /\ LayerTypes' /\ RestTypes' /\ Given' = Given
  BY <1>1, TSame DEF Given
<1>3. bound' \in [Chain -> BOOLEAN] /\ first_frame' \in [Chain -> BOOLEAN]
  BY DEF TInv, ChainTypes, Bind, Unbind, Present, PresentDirty
<1>4. ChainTypes'
  BY <1>1, <1>2, <1>3 DEF TInv, ChainTypes
<1>5. target' \in {target, NoTarget, <<c, rtv[c]>>}
  BY DEF Bind, Unbind, Present, PresentDirty, Presents
<1>6. rtv[c] \in Given /\ 0 \in Given
  BY GraphicsAssumption DEF TInv, ChainTypes, RestTypes, Number, Given
<1>7. TargetTypes'
  BY <1>1, <1>2, <1>5, <1>6 DEF TInv, TargetTypes, NoTarget
<1>8. QED
  BY <1>2, <1>4, <1>7 DEF TInv

LEMMA TResize == ASSUME TInv, NEW c \in Chain, NEW s \in Sizes, Resize(c, s) PROVE TInv'
<1>1. /\ UNCHANGED <<device, bound, first_frame, layer, textureVars, pipeline>>
      /\ (objects' = objects \/ Creates) /\ crashed' \in {crashed, c}
  BY DEF Resize, ResizeIgnored, ResizeUnbound, ResizeRefused, BufferLost, ViewLost,
         ResizeDone, BuffersResized, Resizes, layerVars
<1>2. /\ objects' \in Number /\ Given \subseteq Given' /\ 0 \in Given'
      /\ Creates => \A n \in Given : n + 1 \in Given'
  BY <1>1, GivenGrows DEF TInv
<1>3. ImageTypes' /\ LayerTypes'
  BY <1>1, TSame
<1>4. RestTypes'
  BY <1>1, <1>2 DEF TInv, RestTypes
<1>5. /\ size' \in {size, [size EXCEPT ![c] = s]} /\ wanted' = [wanted EXCEPT ![c] = s]
      /\ extent' \in {extent, [extent EXCEPT ![c] = s]}
      /\ refused' \in {refused, refused \cup {c}, refused \ {c}}
      /\ lost' \in {lost, lost \cup {c}, lost \ {c}}
  BY DEF Resize, ResizeIgnored, ResizeUnbound, ResizeRefused, BufferLost, ViewLost,
         ResizeDone, BuffersResized, Resizes
<1>6. \/ UNCHANGED <<buffers, rtv>>
      \/ /\ Creates /\ buffers' = [buffers EXCEPT ![c] = @ + 1]
         /\ rtv' \in {rtv, [rtv EXCEPT ![c] = 0], [rtv EXCEPT ![c] = buffers'[c]]}
  BY DEF Resize, ResizeIgnored, ResizeUnbound, ResizeRefused, BufferLost, ViewLost,
         ResizeDone, BuffersResized, Resizes
<1>7. buffers' \in [Chain -> Given'] /\ rtv' \in [Chain -> Given']
  <2>1. buffers \in [Chain -> Given'] /\ rtv \in [Chain -> Given']
        /\ (Creates => buffers[c] + 1 \in Given')
    BY <1>2 DEF TInv, ChainTypes
  <2>2. buffers' \in [Chain -> Given']
    BY <1>6, <2>1
  <2>3. rtv' \in [Chain -> Given']
    BY <1>2, <1>6, <2>1, <2>2
  <2>4. QED
    BY <2>2, <2>3
<1>8. s \in Sized /\ s \in Nat \X Nat
  BY GraphicsAssumption DEF Sized
<1>9. ChainTypes'
  <2>1. size' \in [Chain -> Sized] /\ wanted' \in [Chain -> Sized]
    BY <1>5, <1>8 DEF TInv, ChainTypes
  <2>2. extent' \in [Chain -> Nat \X Nat]
    BY <1>5, <1>8 DEF TInv, ChainTypes
  <2>3. QED
    BY <1>1, <1>5, <1>7, <2>1, <2>2 DEF TInv, ChainTypes
<1>10. target' \in {target, NoTarget, <<c, buffers'[c]>>} /\ viewport' \in {viewport, <<c, s>>}
  BY DEF Resize, ResizeIgnored, ResizeUnbound, ResizeRefused, BufferLost, ViewLost,
         ResizeDone, BuffersResized, Resizes
<1>11. TargetTypes'
  BY <1>2, <1>7, <1>8, <1>10 DEF TInv, TargetTypes, NoTarget
<1>12. QED
  BY <1>3, <1>4, <1>9, <1>11 DEF TInv

\* What a step does to the textures and their views.
LEMMA TImages ==
  ASSUME TInv, NEW t \in Texture, UNCHANGED pipeline,
         \/ MakeTexture2d(t) \/ OpenSharedTexture2d(t) \/ TextureResize(t)
         \/ \E other \in Texture : Reset(t, other)
  PROVE  ImageTypes' /\ (objects' = objects \/ Creates)
<1>1. objects' = objects \/ Creates
  BY DEF MakeTexture2d, OpenSharedTexture2d, TextureResize, TextureResized, ImageLost,
         TextureViewLost, Reset
<1>2. Given \subseteq Given' /\ 0 \in Given' /\ objects' \in Given'
  BY <1>1, GivenGrows DEF TInv
<1>3. tex \in [Texture -> Given'] /\ srv \in [Texture -> Given']
  BY <1>2 DEF TInv, ImageTypes
<1>4. tex' \in [Texture -> Given']
  <2>1. \E n \in Given' : tex' = [tex EXCEPT ![t] = n]
    <3>1. CASE \E other \in Texture : Reset(t, other)
      BY <1>3, <3>1 DEF Reset
    <3>2. CASE MakeTexture2d(t) \/ OpenSharedTexture2d(t)
      BY <1>2, <3>2 DEF MakeTexture2d, OpenSharedTexture2d
    <3>3. CASE TextureResize(t)
      BY <1>2, <3>3 DEF TextureResize, TextureResized, ImageLost, TextureViewLost
    <3>4. QED
      BY <3>1, <3>2, <3>3
  <2>2. QED
    BY <1>3, <2>1
<1>5. srv' \in {srv, [srv EXCEPT ![t] = objects'], [srv EXCEPT ![t] = 0]}
      /\ stale' \in {stale, stale \cup {t}, stale \ {t}}
  BY DEF MakeTexture2d, OpenSharedTexture2d, TextureResize, TextureResized, ImageLost,
         TextureViewLost, Reset
<1>6. pipeline' \in [quad : Layer \cup {None}, effect : Layer \cup {None}, view : Given']
  BY <1>2 DEF TInv, ImageTypes
<1>7. srv' \in [Texture -> Given'] /\ stale' \subseteq Texture
  BY <1>2, <1>3, <1>5 DEF TInv, ImageTypes
<1>8. QED
  BY <1>1, <1>4, <1>6, <1>7 DEF ImageTypes

LEMMA TTextures ==
  ASSUME TInv, NEW t \in Texture,
         \/ MakeTexture2d(t) \/ OpenSharedTexture2d(t)
         \/ \E other \in Texture : Reset(t, other)
  PROVE  TInv'
<1>1. UNCHANGED <<device, chainVars, target, viewport, pipeline, layer, crashed>>
  BY DEF MakeTexture2d, OpenSharedTexture2d, Reset, contextVars, layerVars
<1>2. ImageTypes' /\ (objects' = objects \/ Creates)
  BY <1>1, TImages
<1>3. QED
  BY <1>1, <1>2, TSame DEF TInv

LEMMA TMakeLayer == ASSUME TInv, NEW l \in Layer, MakeLayer(l) PROVE TInv'
<1>1. Creates /\ UNCHANGED <<device, chainVars, target, viewport, pipeline, textureVars, crashed>>
  BY DEF MakeLayer, contextVars
<1>2. ChainTypes' /\ TargetTypes' /\ ImageTypes' /\ RestTypes'
  BY <1>1, TSame
<1>3. PICK quad \in CreateQuad, effect \in CreateEffect \cup {"nullptr"},
           t \in Textures \cup {None} :
        layer' = [layer EXCEPT ![l] = [quad |-> quad, effect |-> effect, texture |-> t]]
  BY DEF MakeLayer
<1>4. quad \in BOOLEAN /\ effect \in {"complete", "blank", "nullptr"} /\ t \in Texture \cup {None}
  BY DEF CreateQuad, CreateEffect, Textures
<1>5. LayerTypes'
  BY <1>3, <1>4 DEF TInv, LayerTypes
<1>6. QED
  BY <1>2, <1>5 DEF TInv

LEMMA TRenderLayer ==
  ASSUME TInv, VInv, NEW l \in Layer, RenderLayer(l) PROVE TInv'
<1>1. /\ UNCHANGED <<device, chainVars, target, viewport, layer, textureVars, objects, crashed>>
      /\ pipeline' = IF Drawable(l) THEN Pipeline(l) ELSE pipeline
  BY DEF RenderLayer, Visits
<1>2. ChainTypes' /\ TargetTypes' /\ LayerTypes' /\ RestTypes' /\ Given' = Given
  BY <1>1, TSame DEF Given
<1>3. CASE Drawable(l)
  <2>1. layer[l].texture \in Texture
    BY <1>3, VVisited DEF VInv, Drawable, RenderLayer, Visits
  <2>2. srv[layer[l].texture] \in Given
    BY <2>1 DEF TInv, ImageTypes
  <2>3. pipeline' \in [quad : Layer \cup {None}, effect : Layer \cup {None}, view : Given]
    BY <1>1, <1>3, <2>2 DEF Pipeline
  <2>4. ImageTypes'
    BY <1>1, <1>2, <2>3 DEF TInv, ImageTypes, textureVars
  <2>5. QED
    BY <1>2, <2>4 DEF TInv
<1>4. CASE ~Drawable(l)
  BY <1>1, <1>2, <1>4, TSame DEF TInv
<1>5. QED
  BY <1>3, <1>4

LEMMA TResizeLayer ==
  ASSUME TInv, VInv, NEW l \in Layer, ResizeLayer(l) PROVE TInv'
<1>1. UNCHANGED <<device, chainVars, target, viewport, layer, pipeline>>
  BY DEF ResizeLayer, Visits
<1>2. CASE HasImage(l)
  <2>1. layer[l].texture \in Texture
    BY <1>2, VVisited DEF VInv, HasImage, ResizeLayer, Visits
  <2>2. TextureResize(layer[l].texture) /\ crashed' = crashed
    BY <1>2 DEF ResizeLayer
  <2>3. ImageTypes' /\ (objects' = objects \/ Creates)
    BY <1>1, <2>1, <2>2, TImages
  <2>4. QED
    BY <1>1, <2>2, <2>3, TSame DEF TInv
<1>3. CASE ~HasImage(l)
  <2>1. crashed' = l /\ UNCHANGED <<textureVars, objects>>
    BY <1>3 DEF ResizeLayer
  <2>2. ChainTypes' /\ TargetTypes' /\ ImageTypes' /\ LayerTypes'
    BY <1>1, <2>1, TSame
  <2>3. QED
    BY <1>1, <2>1, <2>2 DEF TInv, RestTypes
<1>4. QED
  BY <1>2, <1>3

LEMMA TStutter ==
  ASSUME TInv, UNCHANGED <<chainVars, target, viewport, textureVars, pipeline, layer, crashed>>,
         objects' = objects, device' \in BOOLEAN
  PROVE  TInv'
<1>1. ChainTypes' /\ TargetTypes' /\ ImageTypes' /\ LayerTypes'
  BY TSame
<1>2. QED
  BY <1>1 DEF TInv, RestTypes

LEMMA TStep == TInv /\ VInv /\ [Next]_vars => TInv'
<1> SUFFICES ASSUME TInv, VInv, [Next]_vars PROVE TInv'
  OBVIOUS
<1>1. CASE MakeDevice
  BY <1>1, TStutter DEF MakeDevice, layerVars
<1>2. ASSUME NEW c \in Chain, MakeSwapchain(c) \/ MakeSwapchainForComposition(c) PROVE TInv'
  BY <1>2, TMade DEF MakeSwapchain, MakeSwapchainForComposition
<1>3. ASSUME NEW c \in Chain, Bind(c) \/ Unbind(c) \/ Present(c) \/ PresentDirty(c) PROVE TInv'
  BY <1>3, TUses
<1>4. ASSUME NEW c \in Chain, NEW s \in Sizes, Resize(c, s) PROVE TInv'
  BY <1>4, TResize
<1>5. ASSUME NEW t \in Texture, MakeTexture2d(t) \/ OpenSharedTexture2d(t) PROVE TInv'
  BY <1>5, TTextures
<1>6. ASSUME NEW t \in Texture, NEW other \in Texture, Reset(t, other) PROVE TInv'
  BY <1>6, TTextures
<1>7. ASSUME NEW l \in Layer, MakeLayer(l) PROVE TInv'
  BY <1>7, TMakeLayer
<1>8. ASSUME NEW l \in Layer, AddLayer(l) \/ RemoveLayer(l) PROVE TInv'
  <2>1. UNCHANGED <<chainVars, contextVars, textureVars, layer, crashed, objects, device>>
    BY <1>8 DEF AddLayer, RemoveLayer
  <2>2. QED
    BY <2>1, TStutter DEF contextVars, TInv, RestTypes
<1>9. ASSUME NEW op \in {"render", "resize"}, StartLoop(op) PROVE TInv'
  BY <1>9, TStutter DEF StartLoop, contextVars, TInv, RestTypes
<1>10. ASSUME NEW l \in Layer, RenderLayer(l) PROVE TInv'
  BY <1>10, TRenderLayer
<1>11. ASSUME NEW l \in Layer, ResizeLayer(l) PROVE TInv'
  BY <1>11, TResizeLayer
<1>12. CASE UNCHANGED vars
  BY <1>12, TStutter DEF vars, layerVars, TInv, RestTypes
<1>13. QED
  BY <1>1, <1>2, <1>3, <1>4, <1>5, <1>6, <1>7, <1>8, <1>9, <1>10, <1>11, <1>12 DEF Next

\* Whichever calls fail, the chains, the context, the textures and the layers keep their
\* types: nothing is viewed or sampled that was not made.
THEOREM TypeCorrect == Spec => []TypeOK
<1>1. TInv /\ VInv => TypeOK
  <2> SUFFICES ASSUME TInv, VInv PROVE TypeOK
    OBVIOUS
  <2>1. Given \subseteq Number
    BY GraphicsAssumption DEF TInv, RestTypes, Given, Number
  <2>2. /\ rtv \in [Chain -> Number] /\ buffers \in [Chain -> Number]
        /\ tex \in [Texture -> Number] /\ srv \in [Texture -> Number]
    BY <2>1 DEF TInv, ChainTypes, ImageTypes
  <2>3. target \in (Chain \cup {None}) \X Number
    BY <2>1 DEF TInv, TargetTypes
  <2>4. pipeline \in [quad : Layer \cup {None}, effect : Layer \cup {None}, view : Number]
    BY <2>1 DEF TInv, ImageTypes
  <2>5. layers \in Seq(Layer) /\ loop \in Seq({"render", "resize"} \X Layer)
    BY DEF VInv, LayersMade
  <2>6. QED
    BY <2>2, <2>3, <2>4, <2>5
       DEF TInv, ChainTypes, TargetTypes, ImageTypes, LayerTypes, RestTypes, TypeOK
<1>2. Init => TInv /\ VInv
  BY TInit, VInit
<1>3. TInv /\ VInv /\ [Next]_vars => TInv' /\ VInv'
  BY TStep, VStep
<1>4. QED
  BY <1>1, <1>2, <1>3, PTL DEF Spec
=============================================================================
