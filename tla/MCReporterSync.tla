--------------------------- MODULE MCReporterSync ---------------------------
(* Small instances of ReporterSync.                                         *)
EXTENDS ReporterSync, TLC

CONSTANTS Odd   \* a value the sanitizer or the server may stumble on

(* One SELECT after the first: of the tool counts, of the ratings. *)
ReadTools == <<"tools">>
ReadRatings == <<"ratings">>

NoPayloads == {}

(* A row the sanitizer refuses, an average the server's schema refuses. *)
OddRow == {p \in Payloads : p["row"] = Odd}
OddRating == {p \in Payloads \ OddRow : p["ratings"] = Odd}

(* Sessions, runners and requests are always interchangeable. *)
SessionSymmetry ==
  Permutations(Sessions) \cup Permutations(Runners) \cup Permutations(Requests)

(* All values are where Unsanitizable and Refused are empty and no part is  *)
(* the ratings.                                                             *)
FullSymmetry == SessionSymmetry \cup Permutations(Values)
=============================================================================
