----------------------------- MODULE BookShelf -----------------------------
(***************************************************************************)
(* The reading shelf of the site: the scraper that fills it                *)
(* (deedlit.dev/scripts/scrape-goodreads.ts), which opens a browser for    *)
(* every configured book and writes one file at the end, and the section   *)
(* that shows the file with the overrides of books-config.ts applied       *)
(* (src/features/books), filtered and sorted.                              *)
(*                                                                         *)
(* A book is its place in the configuration.  What is read off a page is   *)
(* which fields were found; the text of a field is left out.               *)
(***************************************************************************)
EXTENDS Integers, FiniteSets, SequencesExt

CONSTANTS Books,            \* how many URLs books-config.ts lists
          Shelves,          \* shelf names a page may have: the genres
          OverrideTags,     \* bookOverrides: the tags of each book, or {}
          MaxScrapeFaults,  \* bound on what throws in a run
          MaxShelfClicks    \* bound on the filter's clicks

ASSUME ShelfAssumption == Books \in Nat \ {0}

VARIABLES book, step, found,           \* the scrape under way
          stats,                       \* [successful, failed, errors]
          metadata, booksFile,         \* what was scraped, what is on disk
          scrapeFaults,
          bookFilters, shelfClicks

scrapeVars == <<book, step, found, stats, metadata, booksFile, scrapeFaults>>
shelfVars == <<scrapeVars, bookFilters, shelfClicks>>

NothingFound == [title |-> FALSE, author |-> FALSE, rated |-> FALSE, genres |-> {}]
FullRecord(b) == [book |-> b, title |-> TRUE, author |-> TRUE, rated |-> TRUE, genres |-> Shelves]
INITIAL_FILTERS == [query |-> {}, sort |-> "rating-desc", genres |-> {}, tags |-> {}, minRating |-> 0]

Throws == scrapeFaults < MaxScrapeFaults /\ scrapeFaults' = scrapeFaults + 1
Scraping(s) == step = s /\ UNCHANGED <<booksFile, bookFilters, shelfClicks>>
Keeps == UNCHANGED <<book, stats, metadata>>

----------------------------------------------------------------------------
(* One book: launch, open the page, read it, read the shelves, tally, close. *)

Launched == /\ Scraping("launch")
            /\ step' = "open" /\ found' = NothingFound
            /\ Keeps /\ UNCHANGED scrapeFaults
\* A page that does not load is warned of, and read all the same.
Opened == /\ Scraping("open")
          /\ step' = "read"
          /\ Keeps /\ UNCHANGED <<found, scrapeFaults>>
Extracted(f) == /\ Scraping("read")
                /\ found' = [f EXCEPT !.genres = {}]
                /\ step' = "shelves"
                /\ Keeps /\ UNCHANGED scrapeFaults
\* The genres of the shelves page, or none: no work id, no shelf, an error.
GenresFetched(gs) == /\ Scraping("shelves")
                     /\ found' = [found EXCEPT !.genres = gs]
                     /\ step' = "tally"
                     /\ Keeps /\ UNCHANGED scrapeFaults

hasRequiredFields == found.title /\ found.author
\* a record without title or author, not reported
TallySilent == IF hasRequiredFields THEN [stats EXCEPT !.successful = @ + 1] ELSE [stats EXCEPT !.failed = @ + 1]
Tally == IF hasRequiredFields THEN [stats EXCEPT !.successful = @ + 1]
         ELSE [stats EXCEPT !.failed = @ + 1, !.errors = @ \cup {book}]
Tallied == /\ Scraping("tally")
           /\ stats' = Tally
           /\ step' = "close"
           /\ UNCHANGED <<book, metadata, found, scrapeFaults>>

NextBook == IF book < Books THEN book' = book + 1 /\ step' = "launch"
            ELSE book' = book /\ step' = "save"

\* The browser is closed and the record kept, complete or not.
ScrapedRecord == [book |-> book, title |-> found.title, author |-> found.author,
                  rated |-> found.rated, genres |-> found.genres]
Closed == /\ Scraping("close")
          /\ metadata' = Append(metadata, ScrapedRecord)
          /\ NextBook
          /\ UNCHANGED <<found, stats, scrapeFaults>>

\* Anything else that throws: one more failure, and the browser is closed.
ScrapeThrows == /\ step \in {"launch", "open", "read", "close"} /\ Throws
                /\ stats' = [stats EXCEPT !.failed = @ + 1, !.errors = @ \cup {book}]
                /\ NextBook
                /\ UNCHANGED <<found, metadata, booksFile, bookFilters, shelfClicks>>
\* The second close throws as well: nobody catches that, the process exits.
CloseThrows == /\ step \in {"open", "read", "close"}
               /\ scrapeFaults + 1 < MaxScrapeFaults /\ scrapeFaults' = scrapeFaults + 2
               /\ stats' = [stats EXCEPT !.failed = @ + 1, !.errors = @ \cup {book}]
               /\ step' = "crashed"
               /\ UNCHANGED <<book, found, metadata, booksFile, bookFilters, shelfClicks>>

\* The file is written over with the books of this run; an error is logged.
Saved == /\ step = "save"
         /\ booksFile' = metadata
         /\ step' = "done"
         /\ UNCHANGED <<book, found, stats, metadata, scrapeFaults, bookFilters, shelfClicks>>
SaveFails == /\ step = "save" /\ Throws
             /\ step' = "unsaved"
             /\ UNCHANGED <<book, found, stats, metadata, booksFile, bookFilters, shelfClicks>>

----------------------------------------------------------------------------
(* The shelf, built from the file; what has no title or author is shown as *)
(* "Unknown".                                                              *)

books == {[book |-> r.book, title |-> TRUE, author |-> TRUE, rated |-> r.rated, genres |-> r.genres,
           tags |-> OverrideTags[r.book]] : r \in ToSet(booksFile)}
allGenres == UNION {b.genres : b \in books}
allTags == UNION {b.tags : b \in books}
RatingOf(b) == IF b.rated THEN 4 ELSE 0

\* A query is the set of books it matches; the empty one matches all.
Matches(b) == /\ bookFilters.query = {} \/ b.book \in bookFilters.query
              /\ bookFilters.genres = {} \/ bookFilters.genres \cap b.genres # {}
              /\ bookFilters.tags = {} \/ bookFilters.tags \cap b.tags # {}
              /\ RatingOf(b) >= bookFilters.minRating
filteredBooks == {b \in books : Matches(b)}
filteredSeq == SetToSortSeq(filteredBooks, LAMBDA a, b : IF RatingOf(a) = RatingOf(b) THEN a.book < b.book
                                ELSE (bookFilters.sort = "rating-desc") = (RatingOf(a) > RatingOf(b)))

\* a reset offered for the search box and the sliders only
ActiveWithoutPills == bookFilters.query # {} \/ bookFilters.minRating > 0
hasActiveFilters == bookFilters.query # {} \/ bookFilters.genres # {} \/ bookFilters.tags # {} \/ bookFilters.minRating > 0

Flip(x, set) == IF x \in set THEN set \ {x} ELSE set \cup {x}
FilterBooks(f) == /\ step \in {"done", "unsaved", "crashed"} /\ shelfClicks < MaxShelfClicks
                  /\ shelfClicks' = shelfClicks + 1
                  /\ bookFilters' = f
                  /\ UNCHANGED scrapeVars
SetQuery(q) == q # bookFilters.query /\ FilterBooks([bookFilters EXCEPT !.query = q])
SetSort(s) == s # bookFilters.sort /\ FilterBooks([bookFilters EXCEPT !.sort = s])
ToggleGenre(g) == g \in allGenres /\ FilterBooks([bookFilters EXCEPT !.genres = Flip(g, @)])
ToggleTag(t) == t \in allTags /\ FilterBooks([bookFilters EXCEPT !.tags = Flip(t, @)])
SetMinRating(r) == r # bookFilters.minRating /\ FilterBooks([bookFilters EXCEPT !.minRating = r])
ResetFilters == /\ hasActiveFilters \/ filteredSeq = <<>>
                /\ FilterBooks(INITIAL_FILTERS)

----------------------------------------------------------------------------
ShelfInit == /\ book = 1 /\ step = "launch" /\ found = NothingFound
             /\ stats = [successful |-> 0, failed |-> 0, errors |-> {}]
             /\ metadata = <<>> /\ booksFile = [b \in 1..Books |-> FullRecord(b)]
             /\ scrapeFaults = 0
             /\ bookFilters = INITIAL_FILTERS /\ shelfClicks = 0

ShelfNext == \/ Launched \/ Opened \/ Tallied \/ Closed \/ ScrapeThrows \/ CloseThrows \/ Saved \/ SaveFails
             \/ \E t, a, r \in BOOLEAN : Extracted([title |-> t, author |-> a, rated |-> r, genres |-> {}])
             \/ \E gs \in SUBSET Shelves : GenresFetched(gs)
             \/ \E q \in SUBSET (1..Books) : SetQuery(q)
             \/ \E s \in {"rating-desc", "rating-asc"} : SetSort(s)
             \/ \E g \in Shelves : ToggleGenre(g)
             \/ \E t \in UNION {OverrideTags[b] : b \in 1..Books} : ToggleTag(t)
             \/ \E r \in {0, 3} : SetMinRating(r)
             \/ ResetFilters

ShelfSpec == ShelfInit /\ [][ShelfNext]_shelfVars

----------------------------------------------------------------------------
(* After a run that saved its file, every configured book is in the file    *)
(* with its title and author, or the run reported an error for it.          *)
ReportIsComplete ==
    step = "done" => \A b \in 1..Books :
        b \in stats.errors \/ \E r \in ToSet(booksFile) : r.book = b /\ r.title /\ r.author

(* Whatever hides a book can be taken back: Reset is offered.               *)
HiddenBooksCanComeBack == filteredBooks # books => hasActiveFilters

=============================================================================
