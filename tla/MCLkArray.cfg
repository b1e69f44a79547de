SPECIFICATION ArraySpec
CONSTANTS
    Elem = {e1, e2}
    Zero = z
    Stored <- MCItem
    MaxTotal = 4
    Owners <- MCOwners
INVARIANT CountCoversPresent
PROPERTY RefinesList
