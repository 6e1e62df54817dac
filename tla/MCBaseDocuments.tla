--------------------------- MODULE MCBaseDocuments ---------------------------
(* An instance of BaseDocuments: two uploads and an old document of one    *)
(* country, one with a year and two that show years, and a private one.    *)
EXTENDS BaseDocuments, TLC

CONSTANTS upload, later, private, report, scan, rebuild, KEN, UGA

MCCountryOf == upload :> KEN @@ later :> KEN @@ report :> KEN @@ private :> UGA
MCGiven ==
  upload :> None @@ later :> [form |-> "digits", runs |-> <<1998>>]
  @@ report :> None @@ private :> [form |-> "words", runs |-> <<3, 1999>>]
MCNames == upload :> <<2016, 7>> @@ later :> <<2020>> @@ report :> <<7, 2300>> @@ private :> <<2001>>
MCTexts == upload :> << <<2010>> >> @@ later :> << <<2011>> >>
           @@ report :> << <<12>>, <<5, 120150>>, <<2015, 1990>> >> @@ private :> << <<2012>> >>
=============================================================================
