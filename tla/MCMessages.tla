----------------------------- MODULE MCMessages -----------------------------
(***************************************************************************)
(* Messages for TLC: every basic type of another width, texts of several   *)
(* lengths, and containers that begin where no padding would be needed and *)
(* where it is.                                                            *)
(***************************************************************************)
EXTENDS Messages

Text(octets) == Basic(String, octets)

UnixFD == Generic(UnixFDCode, <<1, 0, 0, 0>>, <<>>, <<>>)

AnIdentifier == [path |-> <<47, 97>>, interface |-> <<97, 46, 98>>, member |-> <<77>>]
OtherIdentifier == [path |-> <<47>>, interface |-> <<97, 46, 98, 99, 100>>, member |-> <<77, 110>>]

MCIdentifiers == {AnIdentifier, OtherIdentifier}

MCDestinations == {<<>>, <<58, 49, 46, 50>>}

MCValues ==
    { Basic(Byte, <<7>>), Basic(Boolean, <<1, 0, 0, 0>>), Basic(Uint16, <<1, 2>>),
      Basic(Int64, <<1, 2, 3, 4, 5, 6, 7, 8>>), Basic(Double, <<8, 7, 6, 5, 4, 3, 2, 1>>),
      Text(<<97, 98>>), Basic(ObjectPath, <<47, 97, 98>>), Basic(Signature, <<97, 115>>),
      VariantOf(Text(<<97>>)), VariantOf(Basic(Uint32, <<9, 8, 7, 6>>)),
      StructOf(<<Basic(Byte, <<7>>), Basic(Double, <<8, 7, 6, 5, 4, 3, 2, 1>>)>>),
      StructOf(<<Text(<<97>>), StructOf(<<Basic(Int16, <<3, 4>>), Text(<<>>)>>)>>),
      ArrayOf(<<>>, <<Basic(Byte, <<5>>), Basic(Byte, <<6>>)>>),
      ArrayOf(<<String.code>>, <<>>),
      ArrayOf(<<>>, <<VariantOf(Text(<<97>>))>>),
      ArrayOf(<<>>, <<Basic(Signature, <<115>>)>>),
      ArrayOf(<<>>, <<StructOf(<<Basic(Int32, <<1, 2, 3, 4>>), Text(<<97>>)>>),
                      StructOf(<<Basic(Int32, <<5, 6, 7, 8>>), Text(<<>>)>>)>>),
      ArrayOf(<<>>, <<DictEntryOf(Text(<<97>>), VariantOf(Text(<<98>>)))>>),
      DictEntryOf(Text(<<97>>), ArrayOf(<<>>, <<Basic(Uint64, <<1, 2, 3, 4, 5, 6, 7, 8>>)>>)) }

\* Texts, and arrays that may follow them.
MCArrayValues ==
    {Text(<<97, 98>>), ArrayOf(<<>>, <<Basic(Uint32, <<9, 8, 7, 6>>)>>)}

MCForeignValues ==
    { UnixFD, ArrayOf(<<>>, <<UnixFD>>), ArrayOf(<<>>, <<StructOf(<<UnixFD>>)>>),
      ArrayOf(<<>>, <<DictEntryOf(UnixFD, StructOf(<<UnixFD, UnixFD>>))>>),
      VariantOf(ArrayOf(<<>>, <<Text(<<97>>)>>)),
      ArrayOf(<<>>, <<ArrayOf(<<>>, <<Basic(Int64, <<1, 2, 3, 4, 5, 6, 7, 8>>)>>),
                      ArrayOf(<<Int64.code>>, <<>>)>>) }
=============================================================================
