---------------------------- MODULE MCFieldWrite ----------------------------
(***************************************************************************)
(* Small values for FieldWrite: five fields, two languages, three versions *)
(* and documents sorted and not, with values outside their section, blobs, *)
(* and keys that are there twice.                                          *)
(***************************************************************************)
EXTENDS Conformance

CONSTANTS TitleName, PictureName, RelatedName, NavTitleName, SortorderName, Nothing

Title     == 1
Picture   == 2
Related   == 3
Sortorder == 4
NavTitle  == 5

Danish   == 1
British  == 2

Value(is, text) == [is |-> is, text |-> text, newline |-> FALSE]

MCValues ==
  LET lines == {Value("other", 1), Value("other", 2), Value("guids", 1), Value("piped guids", 1),
                Value("markup", 1), Value("one", 0), Value("empty", 0), Value("guid", 1),
                Value("guid", 2), Value("stray link", 0), Value("link", 2)}
  IN  lines \cup {[v EXCEPT !.newline = TRUE] : v \in lines}

Def(id, name, type, section) == [id |-> id, name |-> name, type |-> type, section |-> section]

MCWellKnown == <<Def(Sortorder, SortorderName, "text", "shared")>>

Article ==
  << Def(Title, TitleName, "text", "versioned"), Def(Picture, PictureName, "link", "versioned"),
     Def(Related, RelatedName, "multilist", "shared"),
     Def(NavTitle, NavTitleName, "layout", "unversioned") >>

(* A template that defines the system field itself, and two fields of one  *)
(* name.                                                                   *)
Other ==
  << Def(Sortorder, SortorderName, "checkbox", "versioned"),
     Def(Related, TitleName, "reference", "unversioned"), Def(Title, TitleName, "text", "versioned") >>

(* <<>>: no template, or none that is known.                               *)
MCSchemas == {Article, Other, <<>>}

F(id, text) == [key |-> id, hint |-> Absent, type |-> Absent, blob |-> FALSE,
                value |-> Value("other", text)]
List(id)    == [F(id, 1) EXCEPT !.type = "multilist"]
Blob(id)    == [F(id, 1) EXCEPT !.blob = TRUE]
V(number, fields) == [key |-> number, fields |-> fields]
L(code, fields, versions) == [key |-> code, fields |-> fields, versions |-> versions]
D(shared, languages) == [shared |-> shared, languages |-> languages]

MCDocuments ==
  { D(<<>>, <<>>),
    D(<<>>, <<L(British, <<>>, <<V(1, <<>>)>>)>>),
    D(<<F(Related, 1), F(Sortorder, 1)>>,
      <<L(Danish, <<>>, <<V(1, <<F(Title, 1), F(NavTitle, 1)>>)>>),
        L(British, <<F(NavTitle, 1)>>, <<V(1, <<F(Title, 1), Blob(Picture)>>),
                                          V(3, <<F(Title, 1)>>)>>)>>),
    D(<<List(Sortorder), Blob(Title), F(Related, 1)>>,
      <<L(British, <<F(Title, 1), F(Related, 1)>>, <<V(3, <<Blob(Picture)>>),
                                                      V(2, <<Blob(Picture), F(Title, 1)>>)>>),
        L(Danish, <<>>, <<>>)>>),
    D(<<F(Related, 1), Blob(Related)>>,
      <<L(British, <<>>, <<V(2, <<>>), V(2, <<Blob(Title)>>)>>),
        L(British, <<F(NavTitle, 1)>>, <<V(3, <<F(Title, 1)>>)>>)>>) }

MCRequests ==
  LET Of(fields, values, languages, versions) ==
        [field : fields, value : values, language : languages, version : versions,
         create : {TRUE}]
  IN  Of({Title, TitleName}, {Value("other", 2)}, {Danish, NotGiven}, {2, NotGiven})
        \cup [field : {Title}, value : {Value("other", 2)}, language : {Danish, NotGiven},
              version : {3, NotGiven}, create : {FALSE}]
        \cup Of({Picture}, {Value("other", 2)}, {NotGiven}, {1, 2, 3, NotGiven})
        \cup Of({Picture}, {Value("link", 2), Value("stray link", 0)}, {NotGiven}, {3})
        \cup Of({Related}, {Value("guid", 1), Value("guid", 2)}, {NotGiven}, {NotGiven})
        \cup Of({Related}, {Value("guids", 1)}, {Danish, NotGiven}, {1, NotGiven})
        \cup Of({RelatedName}, {Value("piped guids", 1), Value("other", 2)},
                {NotGiven}, {NotGiven})
        \cup Of({NavTitleName}, {Value("markup", 1)}, {British, Danish}, {1, NotGiven})
        \cup Of({NavTitleName}, {Value("one", 0)}, {British}, {NotGiven})
        \cup Of({Sortorder, SortorderName}, {Value("one", 0)}, {Danish, NotGiven}, {1, NotGiven})
        \cup Of({Nothing}, {Value("one", 0)}, {NotGiven}, {NotGiven})
        \cup Of({Title, RelatedName, NavTitle},
                {v \in MCValues : v.newline /\ v.is \in {"piped guids", "markup"}}
                  \cup {Value("empty", 0)}, {NotGiven}, {NotGiven})
=============================================================================
