-------------------------------- MODULE Rows --------------------------------
(***************************************************************************)
(* What the services of src/modules rely on TypeORM's repositories for.    *)
(* A row is a record of columns.  A handler loads a row with findOne,      *)
(* assigns to the loaded entity, and calls repository.save(entity).  save  *)
(* is two statements: a SELECT of the row as it is now, whose columns are  *)
(* compared with the entity's, and an UPDATE of the columns that differ.   *)
(* Nothing locks the row or compares a version between any two of these.   *)
(***************************************************************************)
EXTENDS Naturals

(* Object.assign(entity, patch), and a run of assignments to its fields.   *)
Assign(row, patch) ==
  [c \in DOMAIN row |-> IF c \in DOMAIN patch THEN patch[c] ELSE row[c]]

(* The columns save(entity) writes, given the row its SELECT returned.     *)
(* Columns in fresh hold a value that never compares equal to the stored   *)
(* one: a Date just built, or a number where the driver returns a decimal  *)
(* column as a string.                                                     *)
Changed(entity, selected, fresh) ==
  fresh \cup {c \in DOMAIN selected : entity[c] # selected[c]}

(* The row after the UPDATE of those columns.                              *)
Updated(row, entity, columns) ==
  [c \in DOMAIN row |-> IF c \in columns THEN entity[c] ELSE row[c]]

-----------------------------------------------------------------------------
(***************************************************************************)
(* Decimal columns.  Amounts are natural numbers of hundredths, as the     *)
(* numeric(10,2) columns store them.  The driver hands a numeric to        *)
(* JavaScript as a string such as "12.00", so `x += n` for a number n      *)
(* appends the digits of n: "12.00" + 85 is "12.0085".  The server rounds  *)
(* that to two places on UPDATE, and refuses a string with a second        *)
(* decimal point, such as "12.00" + 97.75.                                 *)
(***************************************************************************)
(* Rounding of numeric(10,2): half a hundredth rounds away from zero.      *)
RoundedShare(amount, percent) == (amount * percent + 50) \div 100

(* n, in ten-thousandths, is a whole number, so its text has no point.     *)
IsWhole(n) == n % 10000 = 0

(* The powers of ten a numeric(10,2) value can reach.                      *)
PowersOfTen == {1, 10, 100, 1000, 10000, 100000, 1000000, 10000000}

(* The whole number w is written with a first digit of 5 or more.          *)
LeadsWithFive(w) == \E p \in PowersOfTen : w \div p \in 5..9

(* The stored value of `stored += w`, w whole: its first digit lands in    *)
(* the third decimal place.                                                *)
Appended(stored, w) == stored + (IF LeadsWithFive(w) THEN 1 ELSE 0)
=============================================================================
