------------------------------ MODULE Keyboard ------------------------------
(***************************************************************************)
(* kbd_proc_data of kern/console.c: the scan codes a keyboard sends, one   *)
(* byte at a time, the modifier bits it keeps between calls, and the       *)
(* character of a key.  The tables have the keys that matter: a letter,    *)
(* Enter, Delete behind E0, both keys of every modifier, and Caps Lock.    *)
(***************************************************************************)
EXTENDS Integers, Sequences, FiniteSets, FiniteSetsExt, SequencesExt

\* Scan codes, as released keys and keys behind E0 are looked up: + 128.
shiftcode(c) ==
  CASE c \in {29, 157} -> {"CTL"} [] c \in {42, 54} -> {"SHIFT"}
    [] c \in {56, 184} -> {"ALT"} [] OTHER -> {}
togglecode(c) == CASE c = 58 -> {"CAPSLOCK"} [] c = 69 -> {"NUMLOCK"}
                   [] c = 70 -> {"SCROLLLOCK"} [] OTHER -> {}

normalmap(c) == CASE c = 30 -> "a" [] c \in {28, 156} -> "nl" [] c = 83 -> "." [] c = 211 -> "KEY_DEL"
                  [] OTHER -> "NO"
shiftmap(c) == CASE c = 30 -> "A" [] c \in {28, 156} -> "nl" [] c = 83 -> "." [] c = 211 -> "KEY_DEL"
                 [] OTHER -> "NO"
ctlmap(c) == CASE c = 30 -> "^A" [] c = 28 -> "cr" [] c = 211 -> "KEY_DEL" [] OTHER -> "NO"

charcode(shift, c) ==
  IF "CTL" \in shift THEN ctlmap(c) ELSE IF "SHIFT" \in shift THEN shiftmap(c) ELSE normalmap(c)

Swap(A, B) == (A \ B) \cup (B \ A)

Result(shift, c, k) ==
  [shift |-> shift, char |-> c, reboot |-> k.reboot \/ ({"CTL", "ALT"} \subseteq shift /\ c = "KEY_DEL")]

\* Mutant: the release of a key leaves the E0 behind.
kbd_release_e0(shift, data) ==
  shift \ shiftcode(IF "E0ESC" \in shift THEN data ELSE data - 128)

\* The modifier bits after the release of a key.
kbd_release(shift, data) ==
  shift \ (shiftcode(IF "E0ESC" \in shift THEN data ELSE data - 128) \cup {"E0ESC"})

\* One byte: the modifier bits and the character, NO for none.
kbd_proc_data(k, data) ==
  LET down == IF "E0ESC" \in k.shift THEN data + 128 ELSE data
      shift == Swap((k.shift \ {"E0ESC"}) \cup shiftcode(down), togglecode(down))
      c == charcode(shift, down)
      caps == "CAPSLOCK" \in shift
  IN CASE data = 224 -> Result(k.shift \cup {"E0ESC"}, "NO", k)
       [] data >= 128 /\ data # 224 ->
            Result(kbd_release(k.shift, data), "NO", k)
       [] data < 128 -> Result(shift, IF caps /\ c = "a" THEN "A" ELSE IF caps /\ c = "A" THEN "a" ELSE c, k)

kbd_intr(datas) ==
  FoldLeft(kbd_proc_data, [shift |-> {}, char |-> "NO", reboot |-> FALSE], datas)

(***************************************************************************)
(* What a person does: keys go down and up.                                *)
(***************************************************************************)
Keys == {"a", "enter", "kpenter", "del", "kpdot", "lctl", "rctl", "lshift", "rshift", "lalt",
         "ralt", "caps", "fakeshift"}

code(key) ==
  CASE key = "a" -> 30 [] key \in {"enter", "kpenter"} -> 28 [] key \in {"del", "kpdot"} -> 83
    [] key \in {"lctl", "rctl"} -> 29 [] key \in {"lshift", "fakeshift"} -> 42
    [] key = "rshift" -> 54 [] key \in {"lalt", "ralt"} -> 56 [] key = "caps" -> 58

\* The bytes the keyboard sends for one event.
bytes(ev) ==
  (IF ev.key \in {"kpenter", "del", "rctl", "ralt", "fakeshift"} THEN <<224>> ELSE <<>>)
     \o <<IF ev.down THEN code(ev.key) ELSE code(ev.key) + 128>>

Class(key) == CASE key \in {"lctl", "rctl"} -> "CTL" [] key \in {"lshift", "rshift"} -> "SHIFT"
                [] key \in {"lalt", "ralt"} -> "ALT" [] OTHER -> "none"

\* The keys of a modifier are one key: on if it went down last.
On(evs, mod) ==
  LET at == {i \in DOMAIN evs : Class(evs[i].key) = mod} IN at # {} /\ evs[Max(at)].down
Caps(evs) == Cardinality({i \in DOMAIN evs : evs[i].key = "caps" /\ evs[i].down}) % 2 = 1

-----------------------------------------------------------------------------
\* Whatever was pressed and released before, in any order and behind E0 or
\* not, the modifier bits are those of the keys, no E0 is left over, and a
\* letter comes out in the case that Shift, Caps Lock and Control say.
DecodesKeys(evs) ==
  LET k == kbd_intr(FlattenSeq([i \in DOMAIN evs |-> bytes(evs[i])]))
      last == evs[Len(evs)]
  IN /\ "E0ESC" \notin k.shift
     /\ \A mod \in {"CTL", "SHIFT", "ALT"} : (mod \in k.shift) = On(evs, mod)
     /\ ("CAPSLOCK" \in k.shift) = Caps(evs)
     /\ k.char =
          CASE ~last.down -> "NO"
            [] last.down /\ last.key = "a" ->
                 IF On(evs, "CTL") THEN "^A" ELSE IF On(evs, "SHIFT") # Caps(evs) THEN "A" ELSE "a"
            [] last.down /\ last.key = "enter" -> IF On(evs, "CTL") THEN "cr" ELSE "nl"
            [] last.down /\ last.key = "kpenter" -> IF On(evs, "CTL") THEN "NO" ELSE "nl"
            [] last.down /\ last.key = "del" -> "KEY_DEL"
            [] last.down /\ last.key = "kpdot" -> IF On(evs, "CTL") THEN "NO" ELSE "."
            [] OTHER -> "NO"
=============================================================================
