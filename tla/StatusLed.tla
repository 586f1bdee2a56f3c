------------------------------ MODULE StatusLed ------------------------------
(***************************************************************************)
(* The status LED (components/io/status.cpp, led.cpp, and the SWTimer of   *)
(* esp-idf-cpp/sw_timer.cpp that blinks it).  ESP-IDF runs timer callbacks *)
(* on the core of the event loop and above its priority, so none is cut in *)
(* two by the calls below; they come from the event loop.                  *)
(***************************************************************************)
VARIABLES
    blinking,   \* the timer is armed, with the callback that toggles
    lit         \* Led::mEnable, and the level of the pin

led == <<blinking, lit>>

LedInit == blinking = TRUE /\ lit = FALSE

\* SWTimer::start arms the timer, if it is not armed, and sets the callback.
TimerStart == blinking' = TRUE

\* SWTimer::stop
TimerStop == blinking' = FALSE

\* Mutant: on does not stop the timer.
LedOn_KeepsBlinking == lit' = TRUE /\ UNCHANGED blinking

\* Status::on(true): the timer stops, then the pin is set.
LedOn == TimerStop /\ lit' = TRUE

\* Status::blink: a timer that already runs keeps its period.
LedBlink == TimerStart /\ UNCHANGED lit

\* SWTimer::cb calls the function that toggles.
LedToggle == blinking /\ lit' = ~lit /\ UNCHANGED blinking

LedTypeOK == led \in BOOLEAN \X BOOLEAN
=============================================================================
