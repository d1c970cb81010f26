------------------------------- MODULE Readers -------------------------------
(***************************************************************************)
(* Tasks that fork and read keys, with the histories needed to say what    *)
(* becomes of each typed character and of pending_to_service.              *)
(***************************************************************************)
EXTENDS Kernel

VARIABLES
  ret,      \* what the last call on keyboard_buffer returned
  skew,     \* reads served at once, less waiters woken with no time to be served
  robbed    \* a reader woken by a key has lost its character, or got none

readVars == <<ret, skew, robbed>>

ReadersInit == Init /\ ret = 0 /\ skew = 0 /\ robbed = FALSE

Others == /\ \/ Fork /\ UNCHANGED keyVars
             \/ \E timeout \in Timeouts : GetKeyWaits(timeout) /\ UNCHANGED global_PID
             \/ (KeyRelease \/ ClockTick) /\ UNCHANGED global_PID
          /\ UNCHANGED <<semVars, readVars>>

ReadAtOnce(timeout) ==
  /\ GetKeyAtOnce(timeout)
  /\ IF timeout <= 0 THEN UNCHANGED readVars
                     ELSE /\ ret' = circular_buffer_popped(keyboard_buffer)
                          /\ skew' = skew + 1
                          /\ robbed' = (robbed \/ Woken # {})
  /\ UNCHANGED <<global_PID, semVars>>

ReadResumes ==
  /\ GetKeyResumes
  /\ ret' = IF task[current].key_timeout <= 0
              THEN ret ELSE circular_buffer_popped(keyboard_buffer)
  /\ UNCHANGED <<global_PID, semVars, skew, robbed>>

Type(c) ==
  /\ KeyPress(c)
  /\ LET full == circular_buffer_full(keyboard_buffer)
         timed == Waiters # <<>> /\ task[Head(Waiters)].key_timeout > 0
     IN  /\ ret' = IF full THEN ret ELSE 0
         /\ skew' = IF Waiters # <<>> /\ ~timed THEN skew - 1 ELSE skew
         /\ robbed' = (robbed \/ (full /\ timed))
  /\ UNCHANGED <<global_PID, semVars>>

ReadersNext ==
  \/ Others
  \/ \E timeout \in Timeouts : ReadAtOnce(timeout)
  \/ ReadResumes
  \/ \E c \in Keys : Type(c)

ReadersSpec == ReadersInit /\ [][ReadersNext]_<<vars, readVars>>
-----------------------------------------------------------------------------
(* pending_to_service counts the readers that a key has woken and that are
   still to be served, less one for every read that was served at once and
   plus one for every waiter that was woken too late to take its character.
   The two errors are permanent: no other interleaving adds one, and none
   corrects one. *)
PendingAccounted == pending_to_service = Cardinality(Woken) - skew

(* A reader that a key has woken finds a character when it gets the CPU,
   with two exceptions: another reader was served at once in between, or
   the key had been dropped because the buffer was full. *)
CharForReader == robbed \/ Cardinality(Woken) <= keyboard_buffer.num_elem

Buff == INSTANCE CircularBufferSpec WITH buff <- keyboard_buffer

\* The relation of the cursors, whichever handlers push and pop.
CursorsAgree == Buff!CursorsAgree

(* Between a key press and the switch back to the reader that pops it, other
   handlers run; characters still reach the readers in the order they were
   typed, none twice. *)
ImplementsFifo == Buff!ImplementsFifo
=============================================================================
