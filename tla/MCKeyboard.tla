----------------------------- MODULE MCKeyboard -----------------------------
(* TLC instance of Keyboard. *)
EXTENDS Keyboard

\* CPU 0 takes the keyboard's interrupts, CPU 1 only runs processes.
MCCPU == {"cpu0", "cpu1"}
MCIrqCPU == "cpu0"
\* A letter, the keys that erase, end the input, power off and end a line, and a
\* key that gives no character.
MCKeys == {"a", "^H", "^D", "^Q", "\r", "modifier"}
=============================================================================
