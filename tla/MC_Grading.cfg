CONSTANTS
    None = None
    Rubrics <- MCRubrics
    Tests <- MCTests
    Hooked <- MCHooked
    Filters <- MCFilters

SPECIFICATION Spec

INVARIANT TypeOK
INVARIANT PassNeedsMarker
INVARIANT ResultsAreVisitedSelected
INVARIANT AbortOnlyOnPanic
INVARIANT SummaryCountsAll
PROPERTY ResultsFinal
