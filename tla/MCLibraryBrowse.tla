-------------------------- MODULE MCLibraryBrowse --------------------------
EXTENDS LibraryBrowse

MCKept(f) == IF f = "all" THEN Images ELSE {i \in Images : i % 2 = 1}
MCMatch == [f \in Filters |-> MCKept(f.link) \cap MCKept(f.panel)]

MCNear == {1, 2}

Plain == [mode |-> "browse", text |-> FALSE, filter |-> [link |-> "all", panel |-> "all"],
          sort |-> "newest", ref |-> None, file |-> FALSE]
MCLinks == {Plain, [Plain EXCEPT !.mode = "image"]}
=============================================================================
