------------------------------- MODULE Count --------------------------------
(***************************************************************************)
(* count_to_number of src/src/count.c: "0 1 2 ... ", with a newline after  *)
(* every 30th number, in a buffer whose size a first pass over the same    *)
(* numbers has counted.  Sizes and positions are unsigned and wrap at      *)
(* Wrap (2^32).                                                            *)
(***************************************************************************)
EXTENDS Integers

CONSTANT Wrap

ASSUME WrapAssumption == Wrap \in Nat \ {0}

new_line_every_n_numbers == 30

\* The characters of "%u " for i.
Printed(i) ==
  LET digits[n \in 0..i] == IF n < 10 THEN 1 ELSE 1 + digits[n \div 10]
  IN  digits[i] + 1

NewLine(i) == i > 0 /\ i % new_line_every_n_numbers = 0

\* What the first pass allocates for num.
Size(num) ==
  LET size[i \in 0..num] ==
        IF i = 0 THEN 0
        ELSE (size[i - 1] + Printed(i - 1) + (IF NewLine(i - 1) THEN 1 ELSE 0))
               % Wrap
  IN  (size[num] + 1) % Wrap

\* Where the second pass is before it prints i.
Ptr(num) ==
  LET ptr[i \in 0..num] ==
        IF i = 0 THEN 0
        ELSE LET after == (ptr[i - 1] + Printed(i - 1)) % Wrap
             IN  IF NewLine(i - 1) THEN (after + 1) % Wrap ELSE after
  IN  ptr

\* One past the last byte the second pass writes for i: each sprintf ends its
\* text with a null character.
End(ptr, i) == ptr + Printed(i) + (IF NewLine(i) THEN 1 ELSE 0) + 1

\* Nothing is written past the buffer, and the string fills it.
Fits(num) ==
  LET ptr  == Ptr(num)
      size == Size(num)
  IN  /\ \A i \in 0..(num - 1) : End(ptr[i], i) <= size
      /\ ptr[num] + 1 = size
=============================================================================
