CONSTANTS
    None = None
    Rubrics <- MCRubrics
    Tests <- MCTests
    Hooked = {}
    Filters <- MCFilters

SPECIFICATION Spec

INVARIANT SummarizeNeverCrashes
