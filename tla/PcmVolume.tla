----------------------------- MODULE PcmVolume -----------------------------
(***************************************************************************)
(* The software gain every sink applies: src/pcm_volume.{h,cpp}, pure      *)
(* arithmetic on a scale from 0 to Q32_ONE.                                 *)
(***************************************************************************)
EXTENDS Integers

CONSTANT Q32_ONE    \* unity: 2^32 in the code

ASSUME GainAssumption == Q32_ONE \in Nat \ {0}

Gain == 0..Q32_ONE

cube(n) == n * n * n

\* (volume / 100)^1.5 of unity, rounded to the nearest.
amplitude(volume) ==
    CHOOSE g \in Gain :
        /\ (2 * g - 1) * (2 * g - 1) * cube(100) <= 4 * Q32_ONE * Q32_ONE * cube(volume) \/ g = 0
        /\ 4 * Q32_ONE * Q32_ONE * cube(volume) < (2 * g + 1) * (2 * g + 1) * cube(100)

q32_gain_for(volume, muted) ==
    IF muted \/ volume = 0 THEN 0
    ELSE IF volume >= 100 THEN Q32_ONE
    ELSE amplitude(volume)

\* One sample, rounded half up; the shift of the code is a division that floors.
apply_volume(sample, scale) == (sample * scale + Q32_ONE \div 2) \div Q32_ONE

\* Of a ramp that is to take this many frames from silence to unity; 0 is "snap".
volume_ramp_step(frames) == IF frames = 0 THEN 0 ELSE (Q32_ONE + frames - 1) \div frames

distance(current, target) == IF current < target THEN target - current ELSE current - target

\* Where a ramp has got to, saturating at its target.
ramped_gain(current, target, step, frames) ==
    IF step = 0 \/ current = target THEN target
    ELSE LET far       == distance(current, target)
             travelled == IF frames > far \div step THEN far ELSE frames * step
         IN  IF current < target THEN current + travelled ELSE current - travelled

\* The gain of each frame of a buffer.
apply_volume_ramp(frames, current, target, step) ==
    [k \in 1..frames |-> ramped_gain(current, target, step, k)]
=============================================================================
