\* Every part on the small instance the module names.
CONSTANTS
    me = me
    asker = asker
    friend = friend
    link1 = link1
    link2 = link2
    none = none
    nom = nom
    asha = asha
    bina = bina
    tab1 = tab1
    tab2 = tab2
SYMMETRY EitherTab
SPECIFICATION Spec
INVARIANTS
    OnceAndAsThemselves ShownIsTrue LinksAndBack GuideCanBeRead KeptIsTheirs
PROPERTIES
    AskedAsShown NothingIsTakenBack
CHECK_DEADLOCK FALSE
