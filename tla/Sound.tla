------------------------------- MODULE Sound -------------------------------
(***************************************************************************)
(* The AC97 driver, src/kernel/src/ac97.rs: play_tone() cuts a tone into   *)
(* buffers of a fixed ring, starts the DMA engine on them and waits for    *)
(* the last one.  A tone longer than the ring is cut off.                  *)
(***************************************************************************)
EXTENDS Integers, Sequences, FiniteSetsExt, Functions

CONSTANTS
  Entries,      \* BDL_ENTRIES
  PerBuffer,    \* SAMPLES_PER_BUF
  ToneLengths,  \* the numbers of samples callers ask for
  MaxTones,     \* bound: calls made
  ToneLimit     \* sys_sound_play() refuses longer ones

ASSUME SoundAssumption ==
  Entries \in Nat \ {0} /\ PerBuffer \in Nat \ {0} /\ MaxTones \in Nat /\ ToneLimit \in Nat

VARIABLES
  bdl,          \* the buffer descriptors: samples in each buffer, and of which tone
  tone,         \* the call: [n |-> , total |-> , left |-> , at |-> , st |-> ]
  engine        \* PCM out: [run |-> , lvi |-> , civ |-> , done |-> LVBCI]

sndVars == <<bdl, tone, engine>>

\* sys_sound_play() and the start of play_tone(); a tone of no sample is over.
PlayTone(total) ==
  /\ tone.st = "idle" /\ tone.n < MaxTones
  /\ total \in 1 .. ToneLimit
  /\ tone' = [n |-> tone.n + 1, total |-> total, left |-> total, at |-> 0, st |-> "fill"]
  /\ UNCHANGED <<bdl, engine>>

NumBuffers == Min({(tone.total + PerBuffer - 1) \div PerBuffer, Entries})

\* One round of the loop over the buffers: the samples and the descriptor.
FillBuffer ==
  /\ tone.st = "fill" /\ tone.at < NumBuffers
  /\ LET n == Min({tone.left, PerBuffer})
     IN  /\ bdl' = [bdl EXCEPT ![tone.at] = [samples |-> n, tone |-> tone.n]]
         /\ tone' = [tone EXCEPT !.left = @ - n, !.at = @ + 1]
  /\ UNCHANGED engine

\* Reset, status cleared, BDBAR and LVI written, run.
StartEngine ==
  /\ tone.st = "fill" /\ tone.at = NumBuffers
  /\ engine' = [run |-> TRUE, lvi |-> NumBuffers - 1, civ |-> 0, done |-> FALSE]
  /\ tone' = [tone EXCEPT !.st = "wait"]
  /\ UNCHANGED bdl

\* The engine is through with a buffer.
Played ==
  /\ engine.run /\ ~engine.done
  /\ engine' = IF engine.civ = engine.lvi THEN [engine EXCEPT !.done = TRUE]
               ELSE [engine EXCEPT !.civ = @ + 1]
  /\ UNCHANGED <<bdl, tone>>

\* LVBCI, or as many rounds as the tone's length allows for: the engine is stopped.
StopEngine ==
  /\ tone.st = "wait"
  /\ engine' = [engine EXCEPT !.run = FALSE, !.done = FALSE]
  /\ tone' = [tone EXCEPT !.st = "idle"]
  /\ UNCHANGED bdl

SndInit ==
  /\ bdl = [i \in 0 .. Entries - 1 |-> [samples |-> 0, tone |-> 0]]
  /\ tone = [n |-> 0, total |-> 0, left |-> 0, at |-> 0, st |-> "idle"]
  /\ engine = [run |-> FALSE, lvi |-> 0, civ |-> 0, done |-> FALSE]

SndStep ==
  \/ \E total \in ToneLengths : PlayTone(total)
  \/ FillBuffer \/ StartEngine \/ Played \/ StopEngine

\* While the engine runs, it reads descriptors of this tone only, none of them
\* changes, and they hold the tone, or as much of it as the ring can: every buffer
\* is full but the last, none is empty, and what is left out finds the ring full.
BuffersOwned ==
  engine.run =>
    /\ tone.st = "wait"
    /\ \A i \in 0 .. engine.lvi :
         /\ bdl[i].tone = tone.n
         /\ bdl[i].samples = Min({PerBuffer, tone.total - i * PerBuffer})
         /\ bdl[i].samples > 0
    /\ engine.lvi < Entries - 1 => tone.total <= (engine.lvi + 1) * PerBuffer
=============================================================================
