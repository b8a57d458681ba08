--------------------------- MODULE MCObjectModel ---------------------------
(* Circle extends Shape and adds a Part, a record with a method of its own;  *)
(* Row is an array of shapes, Box a record that has no descriptor itself.    *)
EXTENDS ObjectModel

MCRecords == {"Shape", "Circle", "Part", "Box"}
MCArrays == {"Row"}
MCScalars == {"INTEGER"}
MCBase == [r \in MCRecords |-> IF r = "Circle" THEN "Shape" ELSE "none"]
MCFields ==
  [Shape |-> <<"INTEGER">>, Circle |-> <<"Part">>, Part |-> <<"INTEGER">>, Box |-> <<"INTEGER">>]
MCElem == [Row |-> "Shape"]
MCLength == [Row |-> 2]
MCHasTag == {"Shape", "Circle", "Part"}
MCSlots ==
  [Shape |-> <<<<"Area", "Shape">>>>,
   Circle |-> <<<<"Area", "Circle">>, <<"Grow", "Circle">>>>,
   Part |-> <<<<"Area", "Part">>>>, Box |-> <<>>]

\* Every tagged record inside another value lies in a tagged record or in an
\* array of them.
Descended == <<"Circle", "Shape", "Row", "Box">>
=============================================================================
