-------------------------------- MODULE GLState --------------------------------
(***************************************************************************)
(* The renderer's copy of the state of its GL context.  GLRenderer asks the *)
(* context for a change only if its own copy says that there is one, draws  *)
(* textured quads in batches, late, and lets Skia use the same context for  *)
(* filters in the middle of a frame; every quad must nevertheless be drawn  *)
(* as it was asked for.  Also what happens to a frame at its end: overlays  *)
(* stay locked while they are scanned out, and what was drawn is swapped.   *)
(*                                                                          *)
(* src/src/cc/output/gl_renderer.cc.  External: DirectRenderer, which calls *)
(* this class pass by pass, the GL context and Skia.  Matrices, colours and *)
(* texture coordinates are left out.                                        *)
(***************************************************************************)
EXTENDS Integers, Sequences, FiniteSets

CONSTANTS
  None, Foreign,
  Rects,        \* scissor rectangles
  SkiaTouches,  \* what Skia leaves changed in the context
  MaxBatch,     \* StaticGeometryBinding::NUM_QUADS
  MaxQuads      \* bound: quads in a frame

Default == "over"
Targets == {"texture", "root"}
BlendModes == {Default, "screen", "multiply"}

\* What a program is chosen by.
ProgramParts == BlendModes \cup {"debug", "solid", "tile", "aa", "opaque", "yuv", "alpha", "stream", "io",
                                 "a", "b", "pass", "mask"}

GLAssumption ==
  /\ {None, Foreign} \cap Rects = {}
  /\ \A p \in SUBSET ProgramParts : None # p
  /\ None \notin {"shared", "clipped"}
  /\ SkiaTouches \subseteq {"blend", "stencil", "scissorOn", "scissorRect", "program", "geometry",
                            "func", "equation", "framebuffer", "viewport"}
  /\ MaxBatch \in Nat \ {0} /\ MaxQuads \in Nat

VARIABLES
  caps,       \* what the context and the output surface are capable of
  cached,     \* the *_shadow_ members, is_scissor_enabled_, scissor_rect_, bound_geometry_
  context,    \* the state of the GL context
  batch,      \* draw_cache_
  pass,       \* the pass that is drawn: its target, and the scissor asked for the next quad
  frame,      \* phase of the frame, quads so far
  \* bookkeeping
  wrong       \* what did not hold when something was drawn

vars == <<caps, cached, context, batch, pass, frame, wrong>>

NoBatch == [program |-> None, blend |-> FALSE, quads |-> <<>>]

Init ==
  /\ caps \in [advanced : BOOLEAN, stencil : BOOLEAN]
  /\ cached = [blend |-> FALSE, stencil |-> FALSE, scissorOn |-> FALSE, scissorRect |-> None,
               reset |-> TRUE, program |-> None, geometry |-> None]
  /\ context = [k \in {"blend", "stencil", "scissorOn", "scissorRect", "program", "geometry", "func",
                       "equation", "framebuffer", "viewport"} |-> Foreign]
  /\ batch = NoBatch
  /\ pass = [target |-> None, scissor |-> None]
  /\ frame = [phase |-> "idle", quads |-> 0]
  /\ wrong = {}

Now == [cached |-> cached, context |-> context, batch |-> batch, pass |-> pass, wrong |-> wrong]

Becomes(s) ==
  \E t \in {s} : cached' = t.cached /\ context' = t.context /\ batch' = t.batch /\ pass' = t.pass /\ wrong' = t.wrong

-----------------------------------------------------------------------------
(* Changes of state that are made only if the copy differs.                *)

SetBlendEnabled(s, on) ==
  IF s.cached.blend = on THEN s ELSE [s EXCEPT !.cached.blend = on, !.context.blend = on]

SetStencilEnabled(s, on) ==
  IF s.cached.stencil = on THEN s ELSE [s EXCEPT !.cached.stencil = on, !.context.stencil = on]

SetUseProgram(s, p) ==
  IF s.cached.program = p THEN s ELSE [s EXCEPT !.cached.program = p, !.context.program = p]

\* Binding no geometry only forgets which one is bound.
PrepareGeometry(s, g) ==
  IF s.cached.geometry = g THEN s
  ELSE [s EXCEPT !.cached.geometry = g, !.context.geometry = IF g = None THEN @ ELSE g]

-----------------------------------------------------------------------------
(* Drawing.                                                                *)

Scissor(s) == IF s.context.scissorOn = FALSE THEN None ELSE s.context.scissorRect

\* What a quad asks for; Drawn is what it gets.
Want(s, program, blend, geometry, func, equation) ==
  [program |-> program, blend |-> blend, geometry |-> geometry, func |-> func, equation |-> equation,
   scissor |-> s.pass.scissor, target |-> s.pass.target, stencil |-> caps.stencil /\ s.pass.target = "root"]

Plain(s, program, blend, geometry) == Want(s, program, blend, geometry, Default, "add")

Drawn(s) ==
  [program |-> s.context.program, blend |-> s.context.blend, geometry |-> s.context.geometry,
   func |-> s.context.func, equation |-> s.context.equation, scissor |-> Scissor(s),
   target |-> IF s.context.viewport = s.context.framebuffer THEN s.context.framebuffer ELSE Foreign,
   stencil |-> s.context.stencil]

Differences(s, want) == {k \in DOMAIN want : want[k] # Drawn(s)[k]}

Paint(s, want) == [s EXCEPT !.wrong = @ \cup Differences(s, want)]

\* Everything but a batched quad is painted after the batch before it.
DrawElements(s, want) ==
  [Paint(s, want) EXCEPT !.wrong = @ \cup (IF s.batch = NoBatch THEN {} ELSE {"order"})]

FlushTextureQuadCache(s, geometry) ==
  IF s.batch.program = None THEN s
  ELSE LET b == s.batch
           ready == SetUseProgram(SetBlendEnabled(PrepareGeometry(s, geometry), b.blend), b.program)
           painted == [ready EXCEPT !.wrong = @ \cup UNION {Differences(ready, b.quads[i]) : i \in DOMAIN b.quads},
                                    !.batch = NoBatch]
       IN IF geometry = "clipped" THEN PrepareGeometry(painted, "shared") ELSE painted

\* The scissor is part of what a batch was asked for.
EnsureScissorTestEnabled(s) ==
  IF s.cached.scissorOn THEN s
  ELSE [FlushTextureQuadCache(s, "shared") EXCEPT !.cached.scissorOn = TRUE, !.context.scissorOn = TRUE]

EnsureScissorTestDisabled(s) ==
  IF ~ s.cached.scissorOn THEN s
  ELSE [FlushTextureQuadCache(s, "shared") EXCEPT !.cached.scissorOn = FALSE, !.context.scissorOn = FALSE]

SetScissorTestRect(s, r) ==
  LET t == EnsureScissorTestEnabled(s)
  IN IF t.cached.scissorRect = r /\ ~ t.cached.reset THEN t
     ELSE [FlushTextureQuadCache([t EXCEPT !.cached.scissorRect = r], "shared") EXCEPT
             !.context.scissorRect = r, !.cached.reset = FALSE]

-----------------------------------------------------------------------------
(* Targets, and Skia.                                                      *)

SetViewport(s) == [s EXCEPT !.context.viewport = s.pass.target]

BindFramebufferToOutputSurface(s) ==
  SetStencilEnabled([s EXCEPT !.context.framebuffer = "root"], caps.stencil)

BindFramebufferToTexture(s) ==
  [SetStencilEnabled(s, FALSE) EXCEPT !.context.framebuffer = "texture"]

UseRenderPass(s, target) ==
  LET t == [s EXCEPT !.pass.target = target]
  IN IF target = "root" THEN BindFramebufferToOutputSurface(t) ELSE BindFramebufferToTexture(t)

RestoreFramebuffer(s) == SetViewport(UseRenderPass(s, s.pass.target))

\* The copy goes to the context.  The scissor rectangle only if it is in use.
RestoreGLState(s) ==
  LET c == s.cached
      t == PrepareGeometry([s EXCEPT !.cached.geometry = None], "shared")
  IN [t EXCEPT !.context.func = Default,
               !.context.program = IF c.program = None THEN @ ELSE c.program,
               !.context.stencil = c.stencil, !.context.blend = c.blend,
               !.context.scissorOn = c.scissorOn,
               !.context.scissorRect = IF c.scissorOn THEN c.scissorRect ELSE @]

ReinitializeGLState(s) ==
  RestoreGLState([s EXCEPT !.cached.scissorOn = FALSE, !.cached.reset = TRUE, !.cached.stencil = FALSE,
                           !.cached.blend = TRUE, !.cached.program = None])

\* ScopedUseGrContext: a filter is applied by Skia, in the renderer's context.
BugScopedUseGrContext(s) ==
  RestoreFramebuffer([s EXCEPT !.context = [k \in DOMAIN @ |-> IF k \in SkiaTouches THEN Foreign ELSE @[k]]])
ScopedUseGrContext(s) ==
  RestoreFramebuffer(RestoreGLState(
    [s EXCEPT !.context = [k \in DOMAIN @ |-> IF k \in SkiaTouches THEN Foreign ELSE @[k]]]))

\* A clear obeys the scissor test as a quad does.
ClearFramebuffer(s, r) == [s EXCEPT !.wrong = @ \cup (IF Scissor(s) = r THEN {} ELSE {"clear"})]

PrepareSurfaceForPass(s, mode, r) ==
  CASE mode = "preserve"  -> EnsureScissorTestDisabled(SetViewport(s))
    [] mode = "full"      -> ClearFramebuffer(EnsureScissorTestDisabled(SetViewport(s)), None)
    [] mode = "scissored" -> ClearFramebuffer(SetScissorTestRect(SetViewport(s), r), r)

-----------------------------------------------------------------------------
(* Quads.                                                                  *)

DrawQuadGeometry(s, program, blend) ==
  DrawElements(PrepareGeometry(s, "shared"), Plain(s, program, blend, "shared"))

DrawQuadGeometryClippedByQuadF(s, program, blend) ==
  DrawElements(PrepareGeometry(s, "clipped"), Plain(s, program, blend, "clipped"))

DrawGeometry(s, program, blend, clip) ==
  IF clip THEN DrawQuadGeometryClippedByQuadF(s, program, blend) ELSE DrawQuadGeometry(s, program, blend)

\* A line loop uses whatever vertices are bound: it has a matrix of its own.
DrawDebugBorderQuad(s, blend) ==
  LET t == SetUseProgram(SetBlendEnabled(s, blend), {"debug"})
  IN DrawElements(t, Plain(t, {"debug"}, blend, t.context.geometry))

\* Nothing to see if it is transparent or cannot be transformed.
DrawSolidColorQuad(s, blend, aa, visible) ==
  LET p == IF aa THEN {"solid", "aa"} ELSE {"solid"}
  IN IF visible THEN DrawQuadGeometry(SetBlendEnabled(SetUseProgram(s, p), blend \/ aa), p, blend \/ aa) ELSE s

DrawContentQuadAA(s, visible) ==
  IF visible THEN DrawQuadGeometry(SetBlendEnabled(SetUseProgram(s, {"tile", "aa"}), TRUE), {"tile", "aa"}, TRUE) ELSE s

DrawContentQuadNoAA(s, blend, clip) ==
  LET p == IF blend THEN {"tile"} ELSE {"tile", "opaque"}
  IN DrawGeometry(SetBlendEnabled(SetUseProgram(s, p), blend), p, blend, clip)

DrawContentQuad(s, blend, aa, clip, visible) ==
  IF aa THEN DrawContentQuadAA(s, visible) ELSE DrawContentQuadNoAA(s, blend, clip)

DrawYUVVideoQuad(s, blend, clip, alpha) ==
  LET p == IF alpha THEN {"yuv", "alpha"} ELSE {"yuv"}
  IN DrawGeometry(SetUseProgram(SetBlendEnabled(s, blend), p), p, blend, clip)

DrawStreamVideoQuad(s, blend, clip) ==
  DrawGeometry(SetUseProgram(SetBlendEnabled(s, blend), {"stream"}), {"stream"}, blend, clip)

DrawIOSurfaceQuad(s, blend, clip) ==
  DrawGeometry(SetUseProgram(SetBlendEnabled(s, blend), {"io"}), {"io"}, blend, clip)

\* A clipped quad is a batch of its own.
Enqueued(s, p, blend, clip) ==
  LET b == s.batch
      fits == b.program = p /\ b.blend = blend /\ Len(b.quads) < MaxBatch
      t == IF fits THEN s
           ELSE [FlushTextureQuadCache(s, "shared") EXCEPT
                   !.batch = [program |-> p, blend |-> blend, quads |-> <<>>]]
  IN [t EXCEPT !.batch.quads = Append(@, Plain(s, p, blend, IF clip THEN "clipped" ELSE "shared"))]

EnqueueTextureQuad(s, p, blend, clip) ==
  IF clip
  THEN FlushTextureQuadCache(
         PrepareGeometry(Enqueued(FlushTextureQuadCache(s, "shared"), p, blend, TRUE), "clipped"), "clipped")
  ELSE Enqueued(s, p, blend, FALSE)

-----------------------------------------------------------------------------
(* The quad of a render pass: blending by a function, or in the shader,    *)
(* which then has to see what is behind the quad.                          *)

CanApplyBlendModeUsingBlendFunc(mode) == caps.advanced \/ mode \in {"screen", Default}

ApplyBlendModeUsingBlendFunc(s, mode) ==
  IF caps.advanced
  THEN [s EXCEPT !.context.equation = IF mode = Default THEN @ ELSE mode]
  ELSE [s EXCEPT !.context.func = IF mode = "screen" THEN mode ELSE @]

RestoreBlendFuncToDefault(s, mode) ==
  IF mode = Default THEN s
  ELSE IF caps.advanced THEN [s EXCEPT !.context.equation = "add"]
  ELSE [s EXCEPT !.context.func = Default]

\* q.behind: is there anything behind the quad?  q.filtered: did the filter give an image?
WantsShader(q) == ~ CanApplyBlendModeUsingBlendFunc(q.mode) \/ q.backdrop

ReadsBackdrop(s, q) == IF q.backdrop THEN ScopedUseGrContext(SetBlendEnabled(s, FALSE)) ELSE SetBlendEnabled(s, FALSE)

HasImage(q) == q.behind /\ q.backdrop /\ q.filtered

UsesShader(q) ==
  /\ WantsShader(q) /\ q.behind
  /\ ~ HasImage(q) => ~ (CanApplyBlendModeUsingBlendFunc(q.mode) /\ q.backdrop)

Backdrop(s, q) == IF WantsShader(q) /\ q.behind THEN ReadsBackdrop(s, q) ELSE s

\* The mask is sampled from unit 1, what is behind the quad from the next one, and behind
\* that what it was before the filter, if the mask needs it.
Samplers(q) ==
  LET first == IF q.mask THEN 2 ELSE 1
      original == q.mask /\ HasImage(q)
  IN IF ~ UsesShader(q) THEN {}
     ELSE {<<"backdrop", first>>} \cup (IF original THEN {<<"original", first + 1>>} ELSE {})

BoundTextures(q) ==
  LET first == IF q.mask THEN 2 ELSE 1
      last == IF q.mask /\ HasImage(q) THEN first + 1 ELSE first
      texture == IF HasImage(q) THEN "original" ELSE "backdrop"
  IN (IF HasImage(q) THEN {<<"backdrop", first>>} ELSE {})
     \cup (IF HasImage(q) /\ ~ q.mask THEN {} ELSE {<<texture, last>>})

PassProgram(q) ==
  {"pass"} \cup (IF q.mask THEN {"mask"} ELSE {}) \cup (IF UsesShader(q) THEN {q.mode} ELSE {})

DrawRenderPassQuad(s, q) ==
  LET shader == UsesShader(q)
      blend == ~ shader /\ (q.blend \/ q.mode # Default)
      behind == SetBlendEnabled(Backdrop(s, q), blend)
      filtered == IF q.filter THEN ScopedUseGrContext(behind) ELSE behind
      applied == IF shader THEN filtered ELSE ApplyBlendModeUsingBlendFunc(filtered, q.mode)
      ready == PrepareGeometry(SetUseProgram(applied, PassProgram(q)), "shared")
      func == IF ~ shader /\ ~ caps.advanced /\ q.mode = "screen" THEN q.mode ELSE Default
      equation == IF ~ shader /\ caps.advanced /\ q.mode # Default THEN q.mode ELSE "add"
      drawn == DrawElements(ready, Want(ready, PassProgram(q), blend, "shared", func, equation))
      sampled == [drawn EXCEPT !.wrong = @ \cup (IF Samplers(q) \subseteq BoundTextures(q) THEN {} ELSE {"sampler"})]
  IN IF shader THEN sampled ELSE RestoreBlendFuncToDefault(sampled, q.mode)

\* What is filtered, and whether anything is behind, matters only to a shader.
PassQuads ==
  {q \in [mode : BlendModes, backdrop : BOOLEAN, behind : BOOLEAN, filtered : BOOLEAN, filter : BOOLEAN,
          mask : BOOLEAN, blend : BOOLEAN] :
     /\ q.filtered => q.backdrop /\ q.behind
     /\ ~ q.behind => q.backdrop \/ q.mode = "multiply"
     /\ q.mask \/ q.backdrop => ~ q.blend}

Quads ==
  [material : {"debug"}, blend : BOOLEAN]
    \cup [material : {"solid"}, blend : BOOLEAN, aa : BOOLEAN, visible : BOOLEAN]
    \cup [material : {"tile"}, blend : BOOLEAN, aa : BOOLEAN, visible : {TRUE}, clip : BOOLEAN]
    \cup [material : {"yuv"}, blend : BOOLEAN, clip : BOOLEAN, alpha : BOOLEAN]
    \cup [material : {"stream", "io"}, blend : BOOLEAN, clip : BOOLEAN]
    \cup [material : {"texture"}, blend : BOOLEAN, clip : BOOLEAN, texture : {"a", "b"}]
    \cup [material : {"pass"}, quad : PassQuads]

\* The batch goes first, whatever else the quad is.
FlushFor(s, q) == IF q.material = "texture" THEN s ELSE FlushTextureQuadCache(s, "shared")

DoDrawQuad(s, q) ==
  LET t == FlushFor(s, q)
  IN CASE q.material = "debug"   -> DrawDebugBorderQuad(t, q.blend)
       [] q.material = "solid"   -> DrawSolidColorQuad(t, q.blend, q.aa, q.visible)
       [] q.material = "tile"    -> DrawContentQuad(t, q.blend, q.aa, q.clip, q.visible)
       [] q.material = "yuv"     -> DrawYUVVideoQuad(t, q.blend, q.clip, q.alpha)
       [] q.material = "stream"  -> DrawStreamVideoQuad(t, q.blend, q.clip)
       [] q.material = "io"      -> DrawIOSurfaceQuad(t, q.blend, q.clip)
       [] q.material = "texture" -> EnqueueTextureQuad(t, {q.texture}, q.blend, q.clip)
       [] q.material = "pass"    -> DrawRenderPassQuad(t, q.quad)

-----------------------------------------------------------------------------
(* Frames.                                                                 *)

\* Others used the context since the last frame.
BeginDrawingFrame ==
  /\ frame.phase = "idle"
  /\ frame' = [phase |-> "frame", quads |-> 0]
  /\ Becomes(ReinitializeGLState(
       [Now EXCEPT !.context = [[k \in DOMAIN @ |-> Foreign] EXCEPT !.equation = "add"],
                   !.pass = [target |-> None, scissor |-> None]]))
  /\ UNCHANGED caps

\* Textures first, the root last.
DrawRenderPass ==
  /\ frame.phase = "frame" /\ pass.target # "root"
  /\ \E target \in Targets, mode \in {"preserve", "full", "scissored"}, r \in Rects :
       /\ target = "texture" => pass.target = None
       /\ Becomes(PrepareSurfaceForPass(UseRenderPass(Now, target), mode, r))
       /\ frame' = [frame EXCEPT !.phase = "pass"]
  /\ UNCHANGED caps

\* DirectRenderer sets the scissor for each quad.
SetScissorStateForQuad(s, r) ==
  LET t == IF r = None THEN EnsureScissorTestDisabled(s) ELSE SetScissorTestRect(s, r)
  IN [t EXCEPT !.pass.scissor = r]

DrawQuad ==
  /\ frame.phase = "pass" /\ frame.quads < MaxQuads
  /\ frame' = [frame EXCEPT !.quads = @ + 1]
  /\ \E r \in Rects \cup {None}, q \in Quads : Becomes(DoDrawQuad(SetScissorStateForQuad(Now, r), q))
  /\ UNCHANGED caps

\* A copy of the pass as a bitmap forgets the geometry (EnforceMemoryPolicy).
FinishDrawingQuadList ==
  /\ frame.phase = "pass"
  /\ \E copied \in BOOLEAN :
       LET t == FlushTextureQuadCache(Now, "shared")
       IN Becomes(IF copied THEN PrepareGeometry(t, None) ELSE t)
  /\ frame' = [frame EXCEPT !.phase = "frame"]
  /\ UNCHANGED caps

FinishDrawingFrame ==
  /\ frame.phase = "frame" /\ pass.target = "root"
  /\ frame' = [phase |-> "idle", quads |-> 0]
  /\ Becomes([Now EXCEPT !.cached.blend = FALSE, !.context.blend = FALSE])
  /\ UNCHANGED caps

Next == BeginDrawingFrame \/ DrawRenderPass \/ DrawQuad \/ FinishDrawingQuadList \/ FinishDrawingFrame

Spec == Init /\ [][Next]_vars

-----------------------------------------------------------------------------
(* Properties.                                                             *)

\* Every quad and every clear is drawn with the program, blending, geometry, scissor,
\* stencil and target it was asked with, and in the order it was asked: neither the
\* copies, nor the batch, nor a filter by Skia changes that.
DrawnAsAsked == wrong = {}

\* Within a frame, a copy says what the context has.
CopyIsTrue ==
  frame.phase \in {"frame", "pass"} =>
    /\ \A k \in {"blend", "stencil", "scissorOn"} : cached[k] = context[k]
    /\ cached.program \in {None, context.program}
    /\ cached.geometry \in {None, context.geometry}

TypeOK ==
  /\ frame.phase \in {"idle", "frame", "pass"}
  /\ pass.target \in Targets \cup {None} /\ pass.scissor \in Rects \cup {None}
  /\ Len(batch.quads) <= MaxBatch /\ (batch.program = None) = (batch.quads = <<>>)
  /\ frame.phase # "pass" => batch = NoBatch
===============================================================================
