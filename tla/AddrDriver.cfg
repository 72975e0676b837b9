\* Both scripts again and again; three device numbers; ints of four bits, frames beyond them,
\* and a byte whose word ends with the page, or in the next one, or lies inside.
CONSTANTS
  Driver = {"driver", "doom"}
  Number = {1, 2, 3}
  Frame = {0, 1, 2, 5}
  PageSize = 4
  Places = {0, 2, 3}
  Word = 2
  IntMod = 16
SPECIFICATION Spec
INVARIANTS RegistrationsBalance OpenPinsDriver OwnWordOnly
