----------------------------- MODULE SpriteCode -----------------------------
(***************************************************************************)
(* The code of the individual-sprite operations over the OAM shadow, for a *)
(* sprite known to the compiler and, as runtime routines, for a sprite in  *)
(* A.  Both are the same sequence; only the addressing differs.            *)
(***************************************************************************)
EXTENDS ValueCode

SpriteOperations ==
  {"set_position", "set_x", "set_y", "set_tile", "set_attributes", "set_palette",
   "hide", "show", "set_flip_horizontal", "set_flip_vertical",
   "set_behind_background"}

Dynamic == -1  \* a sprite that only the running program knows

Hidden == Immediate(255)
SpriteValue == Cell("sprite_value")
SpriteSecondary == Cell("sprite_secondary")

\* Byte k of a sprite in the shadow: 0 Y, 1 tile, 2 attributes, 3 X.
LoadOam(sprite, k) ==
  IF sprite = Dynamic THEN <<"ldax", "oam", k>> ELSE <<"lda", <<"oam", 4 * sprite + k>>>>
StoreOam(sprite, k) ==
  IF sprite = Dynamic THEN <<"stax", "oam", k>> ELSE <<"sta", <<"oam", 4 * sprite + k>>>>

LoadLogicalY(sprite) ==
  IF sprite = Dynamic THEN <<"lday", "logical_y">> ELSE <<"lda", <<"logical_y", sprite>>>>
StoreLogicalY(sprite) ==
  IF sprite = Dynamic THEN <<"stay", "logical_y">> ELSE <<"sta", <<"logical_y", sprite>>>>

\* Setting Y does not implicitly show: a hidden sprite only remembers it.
StoreY(sprite, value, path) ==
  << <<"lda", value>>, StoreLogicalY(sprite), LoadOam(sprite, 0), <<"cmp", Hidden>>,
     Jump("beq", path, "hidden"), <<"lda", value>>, StoreOam(sprite, 0),
     Label(path, "hidden") >>

\* Fault: repeated hiding forgets the Y byte that show restores.
HideAlways(sprite, path) ==
  << LoadOam(sprite, 0), StoreLogicalY(sprite), <<"lda", Hidden>>, StoreOam(sprite, 0) >>

Hide(sprite, path) ==
  << LoadOam(sprite, 0), <<"cmp", Hidden>>, Jump("beq", path, "hidden"),
     StoreLogicalY(sprite), <<"lda", Hidden>>, StoreOam(sprite, 0),
     Label(path, "hidden") >>

\* Palettes outside 0..3 leave the attributes as they are.
StorePalette(sprite, path) ==
  << <<"lda", SpriteValue>>, <<"cmp", Immediate(4)>>, Jump("bcs", path, "invalid"),
     LoadOam(sprite, 2), <<"and", Immediate(252)>>, <<"ora", SpriteValue>>,
     StoreOam(sprite, 2), Label(path, "invalid") >>

AttributeMask(op) ==
  CASE op = "set_flip_horizontal" -> 64
    [] op = "set_flip_vertical" -> 128
    [] op = "set_behind_background" -> 32

StoreAttributeBit(sprite, mask, path) ==
  << <<"lda", SpriteValue>>, Jump("beq", path, "clear"),
     LoadOam(sprite, 2), <<"ora", Immediate(mask)>>, Jump("jmp", path, "store"),
     Label(path, "clear"), LoadOam(sprite, 2), <<"and", Immediate(255 - mask)>>,
     Label(path, "store"), StoreOam(sprite, 2) >>

SpriteBody(op, sprite, path) ==
  CASE op = "set_position" ->
         <<<<"lda", SpriteValue>>, StoreOam(sprite, 3)>>
           \o StoreY(sprite, SpriteSecondary, path)
    [] op = "set_x" -> <<<<"lda", SpriteValue>>, StoreOam(sprite, 3)>>
    [] op = "set_tile" -> <<<<"lda", SpriteValue>>, StoreOam(sprite, 1)>>
    [] op = "set_attributes" -> <<<<"lda", SpriteValue>>, StoreOam(sprite, 2)>>
    [] op = "set_y" -> StoreY(sprite, SpriteValue, path)
    [] op = "hide" -> Hide(sprite, path)
    [] op = "show" -> <<LoadLogicalY(sprite), StoreOam(sprite, 0)>>
    [] op = "set_palette" -> StorePalette(sprite, path)
    [] OTHER -> StoreAttributeBit(sprite, AttributeMask(op), path)

\* _generate_sprite_runtime_routines: the index in Y, four times it in X.
SpriteRoutine(op, path) ==
  <<<<"entry", op>>, <<"tay">>, <<"asl">>, <<"asl">>, <<"tax">>>>
    \o SpriteBody(op, Dynamic, path) \o <<<<"rts">>>>

\* Scratch bytes of the runtime that receive the values, in this order.
SpriteScratch == <<SpriteValue, SpriteSecondary>>

\* _generate_sprite_operation: the values first, then the sprite.
SpriteStatement(op, args, live, path) ==
  FlattenSeq([i \in 1 .. Len(args) - 1 |->
      LoadValue(args[i + 1], live, Append(path, i + 1))
        \o <<<<"sta", SpriteScratch[i]>>>>])
    \o (IF args[1][1] = "imm" THEN SpriteBody(op, args[1][2], path)
        ELSE LoadValue(args[1], live, Append(path, 1)) \o <<<<"jsr", op>>>>)

\* Fault: the pair is published before it is complete.
PublishFirst(args, live, path) ==
  <<<<"lda", Immediate(1)>>, <<"sta", Cell("zero_ready")>>>>
    \o FlattenSeq([i \in DOMAIN args |->
         LoadValue(args[i], live, Append(path, i)) \o <<<<"sta", <<"zero_pending", i>>>>>>])

\* _emit_set_sprite_zero: invalidate, stage all four bytes, publish.
SpriteZeroStatement(args, live, path) ==
  <<<<"lda", Immediate(0)>>, <<"sta", Cell("zero_ready")>>>>
    \o FlattenSeq([i \in DOMAIN args |->
         LoadValue(args[i], live, Append(path, i)) \o <<<<"sta", <<"zero_pending", i>>>>>>])
    \o <<<<"lda", Immediate(1)>>, <<"sta", Cell("zero_ready")>>>>
=============================================================================
