--------------------------- MODULE RandomGenerator ---------------------------
(***************************************************************************)
(* The 16-bit Galois LFSR and the bounded reduction emitted by             *)
(* _generate_random_runtime_routines and mirrored by random_runtime.py.    *)
(***************************************************************************)
EXTENDS Integers

Bytes == 0 .. 255
\* The state is any word but zero.
LargestState == 65535
ActiveStates == 1 .. LargestState

\* Exclusive or with one bit, and with the mask $B400.
Toggle(n, bit) == IF (n \div bit) % 2 = 1 THEN n - bit ELSE n + bit
Masked(n) == Toggle(Toggle(Toggle(Toggle(n, 32768), 8192), 4096), 1024)

\* @random_step, lfsr16_step.
Step(state) == IF state % 2 = 1 THEN Masked(state \div 2) ELSE state \div 2

\* The byte a draw returns is the low byte of the new state.
OutputByte(state) == state % 256

\* Fault: seed zero is not normalized.
ReplicatedSeed(seed) == seed * 256 + seed

\* runtime_seed_random; $ACE1 = 44257.
SeedState(seed) == IF seed = 0 THEN 44257 ELSE seed * 256 + seed

\* eor #$AC (1010 1100) and eor #$E1 (1110 0001).
EorAC(b) == Toggle(Toggle(Toggle(Toggle(b, 128), 32), 8), 4)
EorE1(b) == Toggle(Toggle(Toggle(Toggle(b, 128), 64), 32), 1)

\* Automatic seeding from the mixed frame and controller byte.
AutomaticState(mixed) == EorAC(mixed) * 256 + EorE1(mixed)

-----------------------------------------------------------------------------
Consumes(min, max) == min < max
Span(min, max) == max - min + 1

\* Fault: the cutoff is 255 mod span.
CutoffOf255(span) == 255 % span

\* 256 mod span by repeated subtraction from 255.
Cutoff(span) == LET c == (255 % span) + 1 IN IF c < span THEN c ELSE 0

Rejected(min, max, byte) ==
  /\ Consumes(min, max)
  /\ Span(min, max) < 256
  /\ byte < Cutoff(Span(min, max))

\* runtime_random_range with an accepted byte.
Reduced(min, max, byte) ==
  IF ~Consumes(min, max) THEN min
  ELSE IF Span(min, max) = 256 THEN byte
  ELSE min + ((byte - Cutoff(Span(min, max))) % Span(min, max))

=============================================================================
