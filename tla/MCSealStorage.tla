---------------------------- MODULE MCSealStorage ----------------------------
(* Small instance of SealStorage: bytes 0..3, artifacts of up to five bytes. *)
EXTENDS SealStorage

MCArtifact ==
  {<< >>, <<1>>, <<3, 3, 0>>, <<0, 1, 2, 3>>, <<0, 0, 2, 3>>, <<3, 1, 2, 0, 1>>}

Vector(size, max, bins, policy) ==
  [size |-> size, min |-> None, max |-> max, bins |-> bins, scale |-> 1,
   policy |-> policy]

MCConfig ==
  {Vector(2, None, 2, TRUE), Vector(3, 2, 3, FALSE), Vector(None, 0, 4, TRUE),
   Vector(0, None, 1, TRUE)}

MCRouting == {<< >>, <<"hop">>}
=============================================================================
