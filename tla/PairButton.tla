----------------------------- MODULE PairButton -----------------------------
(***************************************************************************)
(* The pairing button (components/io/button.cpp): every 100 ms a timer     *)
(* samples the pin, adds up how long it has been pressed, and reports a    *)
(* long press at every sample after three seconds.  Time is counted in     *)
(* samples.                                                                *)
(***************************************************************************)
EXTENDS Naturals

CONSTANT LongPress      \* samples in the three seconds

ASSUME ButtonAssumption == LongPress \in Nat \ {0}

VARIABLES
    pressed,    \* the pin is low
    last,       \* mLastStatus
    time,       \* mPressedTimeMs
    held        \* history: samples in a row that found it pressed

button == <<pressed, last, time, held>>

\* The members are zero: the object is part of a static.
ButtonInit == pressed = FALSE /\ last = FALSE /\ time = 0 /\ held = 0

\* The user presses, or lets go.
Push == pressed' = ~pressed /\ UNCHANGED <<last, time, held>>

SamplePressed ==
    /\ pressed
    /\ time' = time + 1
    /\ held' = held + 1
    /\ last' = TRUE
    /\ UNCHANGED pressed

\* Mutant: the time of one press counts for the next.
SampleReleased_KeepsTime ==
    /\ ~pressed
    /\ last
    /\ held' = 0
    /\ last' = FALSE
    /\ UNCHANGED <<pressed, time>>

\* The first sample after a press; later ones change nothing.
SampleReleased ==
    /\ ~pressed
    /\ last
    /\ time' = 0
    /\ held' = 0
    /\ last' = FALSE
    /\ UNCHANGED pressed

\* This sample calls back with eLongPress.
IsLong == time' > LongPress

ButtonTypeOK ==
    /\ pressed \in BOOLEAN
    /\ last \in BOOLEAN
    /\ {time, held} \subseteq 0..(LongPress + 1)
=============================================================================
