---------------------------- MODULE PaletteStaging ----------------------------
(***************************************************************************)
(* The palette API after start-up: calls stage colors in a RAM shadow and  *)
(* publish them through one flag per palette and one for the universal     *)
(* background color; NMI uploads what is published, then runs the VBlank   *)
(* callback, which may make a palette call of its own.                     *)
(*                                                                         *)
(* A bank is what one flag publishes: a palette with its NumEntries own    *)
(* colors, or the universal color.  A queued call is the list of stores it *)
(* performs, and the main thread performs one store per step.              *)
(***************************************************************************)
EXTENDS Integers, Sequences

CONSTANTS
  BackgroundPalettes,  \* the code has four of each
  SpritePalettes,
  NumEntries,          \* independent colors of a palette; three in the code
  Colors,              \* colors the program's calls set
  PowerOn,             \* a palette entry nothing has written
  CallbackStages,      \* the VBlank callback makes palette calls
  DefaultPalettes,     \* sprite palettes nes.run initializes by itself
  DefaultColor         \* the color it gives them

\* What a palette byte can hold: a color, or 0, the cleared byte.
Bytes == Colors \union {0, DefaultColor}

ASSUME EntriesAssumption == NumEntries \in Nat
ASSUME ColorsAssumption == PowerOn \notin Bytes
ASSUME DefaultAssumption == DefaultPalettes \subseteq SpritePalettes

Universal == "universal"
ASSUME UniversalAssumption == Universal \notin BackgroundPalettes \union SpritePalettes

Palettes == BackgroundPalettes \union SpritePalettes
Banks == Palettes \union {Universal}
EntriesOf(b) == IF b = Universal THEN {0} ELSE 1 .. NumEntries
Entries == UNION {{<<b, e>> : e \in EntriesOf(b)} : b \in Banks}
Contents == [Banks -> UNION {[EntriesOf(b) -> Bytes \union {PowerOn}] :
                               b \in Banks}]

VARIABLES
  started,   \* nes.run has enabled NMI
  shadow,    \* runtime_palette_shadow
  dirty,     \* the nine dirty flags
  ppu,       \* palette memory
  script,    \* stores of the main thread's call, <<>> when it makes none
  at,        \* the next of them
  promised,  \* history: contents after the latest publication of each bank
  spoiled,   \* history: staged entries that some other code stored over
  overtaken  \* history: banks being staged that the latest callback published

vars == <<started, shadow, dirty, ppu, script, at, promised, spoiled, overtaken>>

Filled(color) == [b \in Banks |-> [e \in EntriesOf(b) |-> color]]

\* RESET clears the shadow; palette memory holds whatever it powered up with.
Init ==
  /\ started = FALSE
  /\ shadow = Filled(0)
  /\ dirty = [b \in Banks |-> FALSE]
  /\ ppu = Filled(PowerOn)
  /\ script = <<>> /\ at = 1
  /\ promised = Filled(PowerOn)
  /\ spoiled = {} /\ overtaken = {}

(***************************************************************************)
(* The stores of a queued call: a full palette withdraws both publications *)
(* before it stages anything and publishes the universal color first; one  *)
(* color withdraws and publishes only its own bank; color zero of any      *)
(* palette is the universal color.                                         *)
(***************************************************************************)
Withdraw(b) == [op |-> "withdraw", bank |-> b]
Publish(b) == [op |-> "publish", bank |-> b]
Store(b, e, color) == [op |-> "store", bank |-> b, entry |-> e, color |-> color]

\* Faults: the mirrored color zero stored as well, the universal color never
\* published, and a color published before it is stored.
SetPaletteAndMirror(p, color0, colors) ==
  <<Withdraw(p), Withdraw(Universal), Store(Universal, 0, color0),
    Store(p, 0, color0)>>
    \o [e \in 1 .. NumEntries |-> Store(p, e, colors[e])]
    \o <<Publish(Universal), Publish(p)>>

SetPaletteOnly(p, color0, colors) ==
  <<Withdraw(p), Withdraw(Universal), Store(Universal, 0, color0)>>
    \o [e \in 1 .. NumEntries |-> Store(p, e, colors[e])]
    \o <<Publish(p)>>

SetColorTooEarly(b, e, color) ==
  <<Withdraw(b), Publish(b), Store(b, e, color)>>

SetPalette(p, color0, colors) ==
  <<Withdraw(p), Withdraw(Universal), Store(Universal, 0, color0)>>
    \o [e \in 1 .. NumEntries |-> Store(p, e, colors[e])]
    \o <<Publish(Universal), Publish(p)>>

SetColor(b, e, color) == <<Withdraw(b), Store(b, e, color), Publish(b)>>

QueuedCalls ==
  {SetPalette(p, color0, colors) : p \in Palettes, color0 \in Colors,
     colors \in [1 .. NumEntries -> Colors]}
  \union UNION {{SetColor(b, e, color) : e \in EntriesOf(b), color \in Colors} :
                  b \in Banks}

BanksOf(calls) == {calls[i].bank : i \in 1 .. Len(calls)}

\* The entries that the first n stores of a call write.
Written(calls, n) ==
  {<<calls[i].bank, calls[i].entry>> :
     i \in {j \in 1 .. n : calls[j].op = "store"}}

\* Contents old of bank b after the first n stores of a call, and after all.
OverlayFirst(n, old, calls, b) ==
  [e \in EntriesOf(b) |->
     LET hits == {i \in 1 .. n : calls[i].op = "store" /\ calls[i].bank = b
                                  /\ calls[i].entry = e}
     IN IF hits = {} THEN old[e] ELSE calls[CHOOSE i \in hits : TRUE].color]

Overlay(old, calls, b) == OverlayFirst(Len(calls), old, calls, b)

\* What a call promises for a bank: a color never set is the cleared byte.
Cleared(old) == [e \in DOMAIN old |-> IF old[e] = PowerOn THEN 0 ELSE old[e]]
Promise(calls, b) == Overlay(Cleared(promised[b]), calls, b)

(***************************************************************************)
(* Main thread: queued calls, made after nes.run or in procedures.         *)
(***************************************************************************)
Begin(call) ==
  /\ script = <<>>
  /\ script' = call /\ at' = 1
  /\ UNCHANGED <<started, shadow, dirty, ppu, promised, spoiled, overtaken>>

Perform(s) ==
  /\ dirty' = IF s.op = "store" THEN dirty
              ELSE [dirty EXCEPT ![s.bank] = (s.op = "publish")]
  /\ shadow' = IF s.op # "store" THEN shadow
               ELSE [shadow EXCEPT ![s.bank][s.entry] = s.color]
  /\ promised' = IF s.op # "publish" THEN promised
                 ELSE [promised EXCEPT ![s.bank] = Promise(script, s.bank)]
  /\ spoiled' = IF s.op # "store" THEN spoiled
                ELSE spoiled \ {<<s.bank, s.entry>>}
  /\ overtaken' = IF s.op = "store" THEN overtaken ELSE overtaken \ {s.bank}

Step ==
  /\ script # <<>>
  /\ Perform(script[at])
  /\ \/ at < Len(script) /\ at' = at + 1 /\ script' = script
     \/ at = Len(script) /\ at' = 1 /\ script' = <<>>
  /\ UNCHANGED <<started, ppu>>

(***************************************************************************)
(* Main thread: calls at top level before nes.run write palette memory     *)
(* directly and mirror the bytes in the shadow.  A program with such a     *)
(* call for a sprite palette gets no default sprite palette.               *)
(***************************************************************************)
WriteDirectly(call) ==
  /\ script = <<>> /\ ~started
  /\ DefaultPalettes = {} \/ BanksOf(call) \intersect SpritePalettes = {}
  /\ ppu' = [b \in Banks |-> Overlay(ppu[b], call, b)]
  /\ shadow' = [b \in Banks |-> Overlay(shadow[b], call, b)]
  /\ promised' = [b \in Banks |-> Overlay(promised[b], call, b)]
  /\ UNCHANGED <<started, dirty, script, at, spoiled, overtaken>>

(***************************************************************************)
(* nes.run, once, at top level: the default sprite palette goes to palette *)
(* memory and to the shadow.  It is what the program shows unless a call   *)
(* has been staged for that palette.                                       *)
(***************************************************************************)
Run ==
  /\ script = <<>> /\ ~started
  /\ started' = TRUE
  /\ LET Defaulted(f) ==
           [b \in Banks |-> IF b \in DefaultPalettes
                            THEN [e \in EntriesOf(b) |-> DefaultColor]
                            ELSE f[b]]
     IN /\ ppu' = Defaulted(ppu)
        /\ shadow' = Defaulted(shadow)
        /\ promised' = [b \in Banks |-> IF dirty[b] THEN promised[b]
                                        ELSE Defaulted(promised)[b]]
  /\ spoiled' = {x \in Entries : x[1] \in DefaultPalettes /\ dirty[x[1]]}
  /\ UNCHANGED <<dirty, script, at, overtaken>>

(***************************************************************************)
(* NMI: runtime_upload_queued_palettes, then the callback.                 *)
(***************************************************************************)
\* Fault: the uploader has no branch for the universal color.
UploadTriplets ==
  ppu' = [b \in Banks |-> IF dirty[b] /\ b # Universal THEN shadow[b]
                         ELSE ppu[b]]

Upload == ppu' = [b \in Banks |-> IF dirty[b] THEN shadow[b] ELSE ppu[b]]

NmiAlone ==
  /\ started
  /\ Upload
  /\ dirty' = [b \in Banks |-> FALSE]
  /\ overtaken' = {}
  /\ UNCHANGED <<started, shadow, script, at, promised, spoiled>>

\* Banks the main thread has withdrawn and not yet published again.
Staging ==
  {b \in BanksOf(script) :
     \E i \in 1 .. at - 1 : script[i] = Withdraw(b) /\
        \A j \in 1 .. at - 1 : script[j] # Publish(b)}

\* Entries that the main thread's call has staged so far.
Staged == Written(script, at - 1)

NmiWithCallback(call) ==
  /\ started /\ CallbackStages
  /\ Upload
  /\ dirty' = [b \in Banks |-> b \in BanksOf(call)]
  /\ shadow' = [b \in Banks |-> Overlay(shadow[b], call, b)]
  /\ promised' = [b \in Banks |-> IF b \in BanksOf(call) THEN Promise(call, b)
                                  ELSE promised[b]]
  /\ LET stored == Written(call, Len(call))
     IN spoiled' = (spoiled \ stored) \union (stored \intersect Staged)
  /\ overtaken' = BanksOf(call) \intersect Staging
  /\ UNCHANGED <<started, script, at>>

Nmi == NmiAlone \/ \E call \in QueuedCalls : NmiWithCallback(call)

Call == \E call \in QueuedCalls : Begin(call) \/ WriteDirectly(call)

Next == Call \/ Step \/ Run \/ Nmi

(***************************************************************************)
(* VBlank raises NMI forever; the fairness concerns NMIs that have         *)
(* something to upload.                                                    *)
(***************************************************************************)
Spec == Init /\ [][Next]_vars
FairSpec == Spec /\ WF_vars(NmiAlone)

-----------------------------------------------------------------------------

TypeOK ==
  /\ started \in BOOLEAN
  /\ {shadow, ppu, promised} \subseteq Contents
  /\ dirty \in [Banks -> BOOLEAN]
  /\ script \in QueuedCalls \union {<<>>}
  /\ at \in 1 .. NumEntries + 5
  /\ spoiled \subseteq Entries
  /\ overtaken \subseteq Banks

(***************************************************************************)
(* "the latest complete update is therefore applied at the next VBlank"    *)
(* (palettes.md): a bank that is neither being staged nor published shows  *)
(* the latest complete update.                                             *)
(***************************************************************************)
NoUpdateIsLost ==
  \A b \in Banks : ~dirty[b] /\ b \notin Staging => ppu[b] = promised[b]

(***************************************************************************)
(* That promise as far as the callback and nes.run keep it: an entry can   *)
(* be wrong only if the callback stored over the bytes of a call in        *)
(* progress, or the default palette of nes.run over a staged call, and     *)
(* nobody has stored that entry since.                                     *)
(***************************************************************************)
Faithful(memory, b) ==
  \A e \in EntriesOf(b) : <<b, e>> \notin spoiled => memory[b][e] = promised[b][e]

OnlySpoiledUpdatesAreLost ==
  \A b \in Banks : ~dirty[b] /\ b \notin Staging => Faithful(ppu, b)

(***************************************************************************)
(* "One publish flag per palette plus one universal-color flag makes each  *)
(* staged update atomic" (palettes.md), as far as the callback keeps it:   *)
(* wherever NMI interrupts the main thread, a bank it changes shows a      *)
(* whole update; only a bank that the callback published in the middle of  *)
(* the main thread's call is uploaded in the middle of it, and then it     *)
(* shows what that call has stored so far over what the callback promised. *)
(***************************************************************************)
PartOfCall(memory, b) ==
  \A e \in EntriesOf(b) : <<b, e>> \notin spoiled =>
    memory[b][e] = OverlayFirst(at - 1, promised[b], script, b)[e]

UnspoiledUploadsAreWhole ==
  [][Nmi => \A b \in Banks : ppu'[b] # ppu[b] =>
       IF b \in Staging THEN b \in overtaken /\ PartOfCall(ppu', b)
       ELSE Faithful(ppu', b)]_vars

(***************************************************************************)
(* When the program and its callback make no more calls, every bank of     *)
(* palette memory settles on what the calls asked for.                     *)
(***************************************************************************)
PalettesSettle ==
  <>[](script = <<>> /\ started) /\ <>[][NmiAlone]_vars
    => <>[](\A b \in Banks : Faithful(ppu, b))

=============================================================================
