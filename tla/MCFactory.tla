----------------------------- MODULE MCFactory ------------------------------
(***************************************************************************)
(* Two workers, two places for phases of A that follow each other, one of  *)
(* which has a second phase there, and inputs that put `make', `add',      *)
(* `remove' and `end' before, between and after the starts; main may also  *)
(* find the end of the input after each command.  The first input is the   *)
(* order of start_test.txt.                                                *)
(***************************************************************************)
EXTENDS Factory

CONSTANTS w1, w2

MCInputs ==
    LET add(x) == <<"add", x>>
        remove(x) == <<"remove", x>>
        make(p) == <<"make", p>>
        start(w, x) == <<"start", <<w, x>>>>
        end(w) == <<"end", w>>
    IN  { <<add("nuzky"), add("vrtacka"), start(w1, "nuzky"), start(w2, "vrtacka"), make("A")>>,
          <<add("nuzky"), start(w1, "nuzky"), start(w2, "nuzky"), make("A")>>,
          <<add("nuzky"), make("A"), start(w2, "vrtacka"), add("vrtacka"), end(w2)>>,
          <<make("A"), start(w1, "nuzky"), add("vrtacka"), add("nuzky"), start(w2, "vrtacka")>>,
          <<add("vrtacka"), add("nuzky"), make("A"), start(w2, "vrtacka"), start(w1, "nuzky"),
            remove("vrtacka")>>,
          <<add("nuzky"), make("A"), add("ohybacka"), start(w1, "nuzky"), remove("nuzky"),
            add("lakovna")>>,
          <<add("svarecka"), add("nuzky"), make("B"), start(w1, "nuzky"), make("C")>>,
          <<remove("lakovna")>>,
          <<add("svarecka"), end(w1), remove("lakovna"), remove("svarecka"),
            start(w2, "freza")>> }

\* For AddWakesWorker: the worker is there before its place, every list has one
\* node at most, so no swap takes place, and nothing is removed.
MCLateAdd == { << <<"make", "A">>, <<"start", <<w1, "nuzky">>>>, <<"add", "nuzky">> >> }
=============================================================================
