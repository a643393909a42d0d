CONSTANTS
    None = None
    Rubrics <- MCRubrics
    Tests <- MCTests
    Hooked <- MCHooked
    Filters <- MCFilters

SPECIFICATION Spec

INVARIANT AbortOnlyWhenFiltered
